---- MODULE Spec2Model ----
(***************************************************************************)
(* Verification model of python/fate/arch/_standalone.py: the partitioned  *)
(* LMDB-backed table, the map-shuffle-reduce driver and its worker tasks,  *)
(* and the binary operators join / union / subtract_by_key; the table-meta  *)
(* catalog with create_table / copy_as / save_as; and the federation.      *)
(*                                                                         *)
(* The specifications share the variables:                                 *)
(*   Spec     one table driven by put / put_all / delete calls             *)
(*   SpecMR   one map_reduce_partitions_with_index call (shuffle+reduce)   *)
(*   SpecBin  one join / union / subtract_by_key call                      *)
(*   SpecCat  create_table / copy_as / save_as calls on the catalog        *)
(*   SpecFed  remote / get calls of the parties of one federation session  *)
(*   SpecMeta add_table_meta / create_table / load / destroy on the catalog *)
(*   SpecJob  one multi-partition call whose user code may raise, then     *)
(*            Session.stop and the drop of the returned handle             *)
(*   SpecMsg  inline messages under several (name, tag, source,            *)
(*            destination) tuples                                          *)
(*   SpecLock tasks that hold the write transactions of several partitions *)
(*   SpecRace two processes that create the same table                     *)
(***************************************************************************)
EXTENDS Integers, Sequences, FiniteSets, TLC

VARIABLES
    n,        \* Table._partitions of the table under test
    parts,    \* committed content of the table: partition index -> (key -> value)
    pc,       \* position of the driver
    txn,      \* put_all: txn_map, the open write transaction of every partition
    call,     \* put_all: partitioner of the running call and what it consumed
    last,     \* outcome of the last finished driver call
    written,  \* history: <<key, P(key, n)>> of every write with a partitioner P, until deleted
    mr,       \* map_reduce_partitions_with_index: inputs of the call
    task1,    \* stage 1 worker tasks (_do_mrwi_map_and_shuffle_write)
    task2,    \* stage 2 worker tasks (_do_mrwi_shuffle_read_and_reduce)
    interm,   \* committed intermediate shuffle partitions "<src>_<dst>"
    outp,     \* committed partitions of the output table
    bin,      \* join / union / subtract_by_key: the whole call
    catalog,  \* the table-meta catalog (__META__, fragments): key bytes -> value bytes
    disk,     \* the data directory: <<namespace, name>> -> partition id -> (key -> value)
    cp,       \* create_table / copy_as / save_as: the running call and its result
    fed,      \* federation: status and object tables, and every party's calls
    job,      \* one multi-partition call: its tasks, what the driver gathered, its result
    proc      \* concurrent processes on one table or one catalog entry: position and locks

vars == <<n, parts, pc, txn, call, last, written, mr, task1, task2, interm, outp, bin,
          catalog, disk, cp, fed, job, proc>>


-----------------------------------------------------------------------------
(* Bounds of the model.                                                    *)

MaxPartitions == 2
MaxLen == 2
MaxEntries == 3

(* Keys are byte strings; EmptyKey is the key LMDB refuses to store.       *)
Keys == {<<1>>, <<1, 2>>, <<2>>}
EmptyKey == <<>>
Vals == {0, 1}

-----------------------------------------------------------------------------
(* Byte strings and the ordered key-value store of one partition.          *)

Min(a, b) == IF a < b THEN a ELSE b

\* bytes.__lt__: byte-lexicographic order, a proper prefix sorts first
BytesLess(a, b) ==
    \E i \in 1..(Min(Len(a), Len(b)) + 1) :
        /\ \A j \in 1..(i - 1) : a[j] = b[j]
        /\ \/ i > Len(a) /\ i <= Len(b)
           \/ i <= Len(a) /\ i <= Len(b) /\ a[i] < b[i]

EmptyDb == [k \in {} |-> 0]

DbPut(db, k, v) == [x \in (DOMAIN db) \cup {k} |-> IF x = k THEN v ELSE db[x]]

DbDelete(db, k) == [x \in (DOMAIN db) \ {k} |-> db[x]]

\* txn.get(k) is None
DbMisses(db, k) == k \notin DOMAIN db

DbGet(db, k) == db[k]

\* env.stat()["entries"]
DbEntries(db) == Cardinality(DOMAIN db)

RECURSIVE SortKeys(_)
SortKeys(S) ==
    IF S = {} THEN <<>>
    ELSE LET m == CHOOSE x \in S : \A y \in S \ {x} : BytesLess(x, y)
         IN <<m>> \o SortKeys(S \ {m})

\* a cursor over one partition: its items in ascending key order
Cursor(db) == LET ks == SortKeys(DOMAIN db)
              IN [i \in 1..Len(ks) |-> <<ks[i], db[ks[i]]>>]

PartIds(np) == 0..(np - 1)

EmptyTable(np) == [p \in PartIds(np) |-> EmptyDb]

RECURSIVE SumOver(_, _)
SumOver(f, S) ==
    IF S = {} THEN 0
    ELSE LET x == CHOOSE y \in S : TRUE IN f[x] + SumOver(f, S \ {x})

-----------------------------------------------------------------------------
(* Partitioners: caller-supplied functions (key_bytes, n) -> [0, n).       *)

Partitioners == {"first_byte", "length", "raising"}

PartitionerRaises(P, k) == P = "raising" /\ k = <<2>>

Partitioner(P, k, np) ==
    CASE P = "first_byte" -> (IF k = <<>> THEN 0 ELSE k[1]) % np
      [] P = "length"     -> Len(k) % np
      [] P = "raising"    -> (Len(k) + 1) % np

\* txn.put: LMDB raises BadValsizeError for a zero-length key
PutRaises(k) == k = EmptyKey

\* txn.put returns False only when overwrite=False meets an existing key
PutReturns(db, k, overwrite) == overwrite \/ k \notin DOMAIN db

-----------------------------------------------------------------------------
(* Table.count and Table.collect.                                          *)

CountMutant(t, np) == SumOver([p \in PartIds(np) |-> DbEntries(t[p])], PartIds(np) \ {0})

count(t, np) == SumOver([p \in PartIds(np) |-> DbEntries(t[p])], PartIds(np))

\* list.__lt__ on the heap entries [key, value, _id, it]
EntryLess(a, b) ==
    \/ BytesLess(a[1], b[1])
    \/ a[1] = b[1] /\ a[2] < b[2]
    \/ a[1] = b[1] /\ a[2] = b[2] /\ a[3] < b[3]

HeapTopMutant(entries) == CHOOSE e \in entries : \A f \in entries : e[3] <= f[3]

\* entries[0] of the heap: the least entry
HeapTop(entries) == CHOOSE e \in entries : \A f \in entries \ {e} : EntryLess(e, f)

RECURSIVE Merge(_, _)
Merge(its, pos) ==
    LET live == {i \in DOMAIN its : pos[i] <= Len(its[i])}
        entries == {<<its[i][pos[i]][1], its[i][pos[i]][2], i>> : i \in live}
    IN IF entries = {} THEN <<>>
       ELSE LET e == HeapTop(entries)
            IN <<<<e[1], e[2]>>>> \o Merge(its, [pos EXCEPT ![e[3]] = @ + 1])

collect(t, np) == Merge([p \in PartIds(np) |-> Cursor(t[p])], [p \in PartIds(np) |-> 1])

-----------------------------------------------------------------------------
(* Driver calls on one table: put, delete, put_all.                        *)

Idle == [op |-> "none", outcome |-> "ok", nput |-> 0]
NoTxn == <<>>
NoCall == <<>>

\* the history of writes once key k is deleted from partition p
Forget(w, k, p) == w \ {<<k, p>>}

\* the history of writes once the keys ks were written with partitioner P
Remember(w, ks, P, np) == w \cup {<<k, Partitioner(P, k, np)>> : k \in ks}

PutPartitionMutant(P, k, np) == 0

\* Table.put line 458 / Table.put_all line 471: p = partitioner(k_bytes, self._partitions)
PutPartition(P, k, np) == Partitioner(P, k, np)

put(k, v, P) ==
    /\ pc = "idle"
    /\ IF PartitionerRaises(P, k) \/ PutRaises(k)
       THEN /\ last' = [op |-> "put", outcome |-> "raised", nput |-> 0]
            /\ UNCHANGED <<parts, written>>
       ELSE LET p == PutPartition(P, k, n)
                t == [parts EXCEPT ![p] = DbPut(@, k, v)]
            IN /\ count(t, n) <= MaxEntries
               /\ parts' = t
               /\ written' = Remember(written, {k}, P, n)
               /\ last' = [op |-> "put", outcome |-> "ok", nput |-> 1]
    /\ UNCHANGED <<n, pc, txn, call>>

delete(k, P) ==
    /\ pc = "idle"
    /\ IF PartitionerRaises(P, k)
       THEN /\ last' = [op |-> "delete", outcome |-> "raised", nput |-> 0]
            /\ UNCHANGED <<parts, written>>
       ELSE LET p == Partitioner(P, k, n)
            IN /\ parts' = [parts EXCEPT ![p] = DbDelete(@, k)]
               /\ written' = Forget(written, k, p)
               /\ last' = [op |-> "delete", outcome |-> "ok", nput |-> 0]
    /\ UNCHANGED <<n, pc, txn, call>>

\* put_all lines 464-468: a write transaction on every partition
put_all_begin(P) ==
    /\ pc = "idle"
    /\ pc' = "put_all"
    /\ txn' = parts
    /\ call' = [partitioner |-> P, fed |-> EmptyDb, nput |-> 0]
    /\ UNCHANGED <<n, parts, last, written>>

PutAllAbortMutant(t, committed) == t

\* put_all lines 474-478: every transaction is aborted
PutAllAbort(t, committed) == committed

\* put_all lines 470-473, one pair drawn from kv_list
put_all_next(k, v) ==
    /\ pc = "put_all"
    /\ call.nput < MaxLen
    /\ LET P == call.partitioner IN
       IF PartitionerRaises(P, k) \/ PutRaises(k)
       THEN /\ parts' = PutAllAbort(txn, parts)
            /\ last' = [op |-> "put_all", outcome |-> "raised", nput |-> call.nput]
            /\ pc' = "idle"
            /\ txn' = NoTxn
            /\ call' = NoCall
            /\ UNCHANGED written
       ELSE LET p == PutPartition(P, k, n)
                t == [txn EXCEPT ![p] = DbPut(@, k, v)]
            IN /\ count(t, n) <= MaxEntries
               /\ IF PutReturns(txn[p], k, TRUE)
                  THEN /\ txn' = t
                       /\ call' = [call EXCEPT !.fed = DbPut(@, k, v), !.nput = @ + 1]
                       /\ UNCHANGED <<parts, pc, last, written>>
                  ELSE \* line 473: break, then the else branch commits
                       /\ parts' = txn
                       /\ written' = Remember(written, DOMAIN call.fed, P, n)
                       /\ last' = [op |-> "put_all", outcome |-> "ok", nput |-> call.nput]
                       /\ pc' = "idle"
                       /\ txn' = NoTxn
                       /\ call' = NoCall
    /\ UNCHANGED n

\* the input iterator raises: except branch, lines 474-478
put_all_iter_raises ==
    /\ pc = "put_all"
    /\ parts' = PutAllAbort(txn, parts)
    /\ last' = [op |-> "put_all", outcome |-> "raised", nput |-> call.nput]
    /\ pc' = "idle"
    /\ txn' = NoTxn
    /\ call' = NoCall
    /\ UNCHANGED <<n, written>>

\* the input iterator is exhausted: else branch, lines 479-481
put_all_commit ==
    /\ pc = "put_all"
    /\ parts' = txn
    /\ written' = Remember(written, DOMAIN call.fed, call.partitioner, n)
    /\ last' = [op |-> "put_all", outcome |-> "ok", nput |-> call.nput]
    /\ pc' = "idle"
    /\ txn' = NoTxn
    /\ call' = NoCall
    /\ UNCHANGED n

InitTable ==
    /\ n \in 1..MaxPartitions
    /\ parts = EmptyTable(n)
    /\ pc = "idle"
    /\ txn = NoTxn
    /\ call = NoCall
    /\ last = Idle
    /\ written = {}

MRUnused ==
    /\ mr = <<>>
    /\ task1 = <<>>
    /\ task2 = <<>>
    /\ interm = <<>>
    /\ outp = <<>>

CatUnused ==
    /\ catalog = <<>>
    /\ disk = <<>>
    /\ cp = <<>>
    /\ fed = <<>>
    /\ job = <<>>
    /\ proc = <<>>

Init ==
    /\ InitTable
    /\ MRUnused
    /\ bin = <<>>
    /\ CatUnused

Next ==
    \/ \E k \in Keys \cup {EmptyKey}, v \in Vals, P \in Partitioners :
           put(k, v, P) /\ UNCHANGED <<mr, task1, task2, interm, outp, bin, catalog, disk, cp, fed, job, proc>>
    \/ \E k \in Keys, P \in Partitioners :
           delete(k, P) /\ UNCHANGED <<mr, task1, task2, interm, outp, bin, catalog, disk, cp, fed, job, proc>>
    \/ \E P \in Partitioners :
           put_all_begin(P) /\ UNCHANGED <<mr, task1, task2, interm, outp, bin, catalog, disk, cp, fed, job, proc>>
    \/ \E k \in Keys \cup {EmptyKey}, v \in Vals :
           put_all_next(k, v) /\ UNCHANGED <<mr, task1, task2, interm, outp, bin, catalog, disk, cp, fed, job, proc>>
    \/ put_all_iter_raises /\ UNCHANGED <<mr, task1, task2, interm, outp, bin, catalog, disk, cp, fed, job, proc>>
    \/ put_all_commit /\ UNCHANGED <<mr, task1, task2, interm, outp, bin, catalog, disk, cp, fed, job, proc>>

Spec == Init /\ [][Next]_vars

-----------------------------------------------------------------------------
(* Claims about one table (specification Spec).                            *)

CollectedKeys(t, np) == LET c == collect(t, np) IN [i \in 1..Len(c) |-> c[i][1]]

StrictlyIncreasing(ks) == \A i \in 1..(Len(ks) - 1) : BytesLess(ks[i], ks[i + 1])

NonDecreasing(ks) ==
    \A i \in 1..(Len(ks) - 1) : BytesLess(ks[i], ks[i + 1]) \/ ks[i] = ks[i + 1]

DistinctKeys(ks) == {ks[i] : i \in 1..Len(ks)}

\* no key is stored in two partitions of the table
SingleHome(t, np) ==
    \A p \in PartIds(np), q \in PartIds(np) :
        p # q => (DOMAIN t[p]) \cap (DOMAIN t[q]) = {}

\* every pair the call consumed is stored where its partitioner sends the key
\* (of two pairs with one key, the later one)
AllStored(c, t, np) ==
    \A k \in DOMAIN c.fed :
        LET p == Partitioner(c.partitioner, k, np)
        IN k \in DOMAIN t[p] /\ t[p][k] = c.fed[k]

\* C1: put_all is all-or-nothing: when the call ends, normally or with an
\* error of the partitioner, the input iterator or a put, either every pair of
\* the input is stored in the partition its partitioner chose, or no partition
\* differs from its state before the call.
C1_PutAllAllOrNothing ==
    [][(pc = "put_all" /\ pc' = "idle") =>
          \/ last'.outcome = "ok" /\ AllStored(call, parts', n)
          \/ parts' = parts]_vars

\* a put_all that failed after it had put at least one pair into a transaction
C1_Witness ==
    /\ last.op = "put_all" /\ last.outcome = "raised" /\ last.nput >= 1
    /\ pc = "idle"
    /\ count(parts, n) >= 1

\* C4 as stated: collect() yields strictly increasing keys for every table that
\* put, put_all and delete calls with any partitioners can reach.
C4_CollectStrictlyIncreasing == StrictlyIncreasing(CollectedKeys(parts, n))

\* C4 as amended: collect() yields non-decreasing keys, and strictly
\* increasing keys whenever no key is stored in two partitions.
C4_CollectSorted ==
    LET ks == CollectedKeys(parts, n)
    IN /\ NonDecreasing(ks)
       /\ SingleHome(parts, n) => StrictlyIncreasing(ks)

\* the merge has to interleave: a later partition holds a smaller key
C4_Witness ==
    /\ SingleHome(parts, n)
    /\ \E p \in PartIds(n), q \in PartIds(n) :
           /\ p < q
           /\ \E a \in DOMAIN parts[p], b \in DOMAIN parts[q] : BytesLess(b, a)
    /\ Len(collect(parts, n)) >= 3

\* C5 as stated: count() equals the number of distinct keys of a full collect().
C5_CountIsDistinctKeys ==
    count(parts, n) = Cardinality(DistinctKeys(CollectedKeys(parts, n)))

\* C5 as amended: count() equals the number of entries a full collect() yields,
\* which is the number of distinct keys whenever no key is stored in two
\* partitions.
C5_CountIsCollected ==
    LET ks == CollectedKeys(parts, n)
    IN /\ count(parts, n) = Len(ks)
       /\ SingleHome(parts, n) => count(parts, n) = Cardinality(DistinctKeys(ks))

\* entries in two partitions, each key stored once
C5_Witness ==
    /\ SingleHome(parts, n)
    /\ count(parts, n) >= 2
    /\ \E p \in PartIds(n), q \in PartIds(n) :
           p # q /\ DOMAIN parts[p] # {} /\ DOMAIN parts[q] # {}

\* C6: every key written by put or put_all with a partitioner P is stored in
\* partition P(key, n), until a delete removes it from there.
C6_WrittenKeysInPartition ==
    \A e \in written : e[1] \in DOMAIN parts[e[2]]

\* a put_all has committed keys to partitions other than partition 0
C6_Witness ==
    /\ last.op = "put_all" /\ last.outcome = "ok" /\ last.nput >= 2
    /\ \E e \in written, f \in written : e[2] # f[2]

-----------------------------------------------------------------------------
(* map_reduce_partitions_with_index, shuffle=True with a reducer           *)
(* (specification SpecMR): the driver submits one stage 1 task per input   *)
(* partition to the worker pool, waits for them, then submits one stage 2  *)
(* task per output partition.                                              *)

MaxInput == 2
MaxWorkers == 2

Mappers == {"identity", "one_key", "twice"}
Reducers == {"add", "max", "left", "shift"}
OutputPartitioners == {"first_byte", "length"}

\* map_partition_op(partition_index, iterator): user code, three samples
MapOp(M, items) ==
    CASE M = "identity" -> items
      [] M = "one_key"  -> [i \in 1..Len(items) |-> <<<<1>>, items[i][2]>>]
      [] M = "twice"    -> [i \in 1..(2 * Len(items)) |-> items[(i + 1) \div 2]]
      [] M = "raising"  -> items

\* reduce_partition_op(old, new): user code, four samples ("shift" is neither
\* commutative nor associative)
ReduceOp(R, a, b) ==
    CASE R = "add"  -> a + b
      [] R = "max"  -> IF a > b THEN a ELSE b
      [] R = "left" -> a
      [] R = "shift" -> 2 * a + b
      [] R = "raising" -> a + b

\* int.to_bytes(4, "big")
ToBytes4(i) == <<(i \div 16777216) % 256, (i \div 65536) % 256, (i \div 256) % 256, i % 256>>

SerializeShuffleWriteKeyMutant(index, k) == ToBytes4(0) \o k

serialize_shuffle_write_key(index, k) == ToBytes4(index) \o k

deserialize_shuffle_write_key(sk) == SubSeq(sk, 5, Len(sk))

\* the intermediate partition "<src>_<dst>"
get_shuffle_partition_id(src, dst) == <<src, dst>>

\* txn.put(key, value, overwrite=False)
DbPutNoOverwrite(db, k, v) == IF PutReturns(db, k, FALSE) THEN DbPut(db, k, v) ELSE db

\* _do_mrwi_map_and_shuffle_write lines 1102-1105: the loop over enumerate(output_kv_iter)
RECURSIVE ShuffleWriteLoop(_, _, _, _, _)
ShuffleWriteLoop(txns, emitted, i, P, np) ==
    IF i > Len(emitted) THEN txns
    ELSE LET k == emitted[i][1]
             v == emitted[i][2]
             d == Partitioner(P, k, np)
         IN ShuffleWriteLoop(
                [txns EXCEPT ![d] = DbPutNoOverwrite(@, serialize_shuffle_write_key(i - 1, k), v)],
                emitted, i + 1, P, np)

\* what the stage 1 task of input partition src commits, per destination
do_mrwi_map_and_shuffle_write(src) ==
    ShuffleWriteLoop([d \in PartIds(n) |-> interm[get_shuffle_partition_id(src, d)]],
                     MapOp(mr.mapper, Cursor(parts[src])), 1, mr.partitioner, n)

RECURSIVE ReduceLoopMutant(_, _, _, _)
ReduceLoopMutant(dst, items, i, R) ==
    IF i > Len(items) THEN dst
    ELSE LET key == deserialize_shuffle_write_key(items[i][1])
         IN ReduceLoopMutant(IF DbMisses(dst, key) THEN DbPut(dst, key, items[i][2])
                             ELSE DbPut(dst, key, ReduceOp(R, items[i][2], DbGet(dst, key))),
                             items, i + 1, R)

\* _do_mrwi_shuffle_read_and_reduce lines 1115-1122: one intermediate cursor
RECURSIVE ReduceLoop(_, _, _, _)
ReduceLoop(dst, items, i, R) ==
    IF i > Len(items) THEN dst
    ELSE LET key == deserialize_shuffle_write_key(items[i][1])
         IN ReduceLoop(IF DbMisses(dst, key) THEN DbPut(dst, key, items[i][2])
                       ELSE DbPut(dst, key, ReduceOp(R, DbGet(dst, key), items[i][2])),
                       items, i + 1, R)

\* lines 1114-1122: the loop over the input partition ids, from src on
RECURSIVE ShuffleReadLoop(_, _, _)
ShuffleReadLoop(dst, src, d) ==
    IF src >= n THEN dst
    ELSE ShuffleReadLoop(
             ReduceLoop(dst, Cursor(interm[get_shuffle_partition_id(src, d)]), 1, mr.reducer),
             src + 1, d)

\* the pairs a stage 2 task reads, with the index prefix stripped
RECURSIVE ShuffleSeen(_, _)
ShuffleSeen(src, d) ==
    IF src >= n THEN <<>>
    ELSE LET c == Cursor(interm[get_shuffle_partition_id(src, d)])
         IN [i \in 1..Len(c) |-> <<deserialize_shuffle_write_key(c[i][1]), c[i][2]>>]
                \o ShuffleSeen(src + 1, d)

Running ==
    Cardinality({s \in DOMAIN task1 : task1[s] = "running"})
        + Cardinality({d \in DOMAIN task2 : task2[d].st = "running"})

\* ProcessPoolExecutor(max_workers): a queued task starts when a worker is free
WorkerFree == Running < MaxWorkers

Stage1FinishedMutant == TRUE

\* _submit_map_reduce_partitions_with_index line 641: results = [r.result() for r in futures]
Stage1Finished == \A s \in PartIds(n) : task1[s] = "done"

Stage2Finished == \A d \in PartIds(n) : task2[d].st = "done"

\* Table.map_reduce_partitions_with_index lines 312-320: stage 1 is submitted
mr_submit_stage1 ==
    /\ pc = "mr_start"
    /\ task1' = [s \in PartIds(n) |-> "queued"]
    /\ pc' = "mr_wait1"
    /\ UNCHANGED <<n, parts, txn, call, last, written, mr, task2, interm, outp, bin>>

task1_start(s) ==
    /\ task1[s] = "queued"
    /\ WorkerFree
    /\ task1' = [task1 EXCEPT ![s] = "running"]
    /\ UNCHANGED <<n, parts, pc, txn, call, last, written, mr, task2, interm, outp, bin>>

\* the task body runs and the ExitStack commits its write transactions
task1_finish(s) ==
    /\ task1[s] = "running"
    /\ LET w == do_mrwi_map_and_shuffle_write(s)
       IN interm' = [x \in DOMAIN interm |-> IF x[1] = s THEN w[x[2]] ELSE interm[x]]
    /\ task1' = [task1 EXCEPT ![s] = "done"]
    /\ UNCHANGED <<n, parts, pc, txn, call, last, written, mr, task2, outp, bin>>

\* lines 320-332: stage 1 results are gathered, stage 2 is submitted
mr_submit_stage2 ==
    /\ pc = "mr_wait1"
    /\ Stage1Finished
    /\ task2' = [d \in PartIds(n) |-> [st |-> "queued", seen |-> <<>>]]
    /\ pc' = "mr_wait2"
    /\ UNCHANGED <<n, parts, txn, call, last, written, mr, task1, interm, outp, bin>>

task2_start(d) ==
    /\ pc = "mr_wait2"
    /\ task2[d].st = "queued"
    /\ WorkerFree
    /\ task2' = [task2 EXCEPT ![d].st = "running"]
    /\ UNCHANGED <<n, parts, pc, txn, call, last, written, mr, task1, interm, outp, bin>>

task2_finish(d) ==
    /\ pc = "mr_wait2"
    /\ task2[d].st = "running"
    /\ outp' = [outp EXCEPT ![d] = ShuffleReadLoop(outp[d], 0, d)]
    /\ task2' = [task2 EXCEPT ![d] = [st |-> "done", seen |-> ShuffleSeen(0, d)]]
    /\ UNCHANGED <<n, parts, pc, txn, call, last, written, mr, task1, interm, bin>>

\* lines 345-349, drop cache table: _get_env opens, and so creates, partition
\* "<p>" of the intermediate table for every p, and its database is dropped
DropCache(t, np) ==
    LET opened == {<<p>> : p \in PartIds(np)}
    IN [x \in (DOMAIN t) \cup opened |-> IF x \in opened THEN EmptyDb ELSE t[x]]

RmTreeMutant(t) == t

\* shutil.rmtree(path, ignore_errors=True): no partition directory is left
RmTree(t) == [x \in {} |-> EmptyDb]

\* lines 332-353: stage 2 results are gathered, the cache table is dropped
mr_return ==
    /\ pc = "mr_wait2"
    /\ Stage2Finished
    /\ interm' = RmTree(DropCache(interm, n))
    /\ pc' = "mr_done"
    /\ last' = [op |-> "map_reduce", outcome |-> "ok", nput |-> 0]
    /\ UNCHANGED <<n, parts, txn, call, written, mr, task1, task2, outp, bin>>

Dbs == UNION {[S -> Vals] : S \in SUBSET Keys}

\* the tables of np partitions with at most max entries
Tables(np, max) == {t \in [PartIds(np) -> Dbs] : count(t, np) <= max}

InitMR ==
    /\ n \in 1..MaxPartitions
    /\ parts \in Tables(n, MaxInput)
    /\ pc = "mr_start"
    /\ txn = NoTxn
    /\ call = NoCall
    /\ last = Idle
    /\ written = {}
    /\ mr \in [mapper : Mappers, reducer : Reducers, partitioner : OutputPartitioners]
    /\ task1 = [s \in PartIds(n) |-> "none"]
    /\ task2 = [d \in PartIds(n) |-> [st |-> "none", seen |-> <<>>]]
    /\ interm = [x \in PartIds(n) \X PartIds(n) |-> EmptyDb]
    /\ outp = EmptyTable(n)
    /\ bin = <<>>
    /\ CatUnused

NextMR ==
    \/ mr_submit_stage1 /\ UNCHANGED <<catalog, disk, cp, fed, job, proc>>
    \/ \E s \in PartIds(n) : task1_start(s) /\ UNCHANGED <<catalog, disk, cp, fed, job, proc>>
    \/ \E s \in PartIds(n) : task1_finish(s) /\ UNCHANGED <<catalog, disk, cp, fed, job, proc>>
    \/ mr_submit_stage2 /\ UNCHANGED <<catalog, disk, cp, fed, job, proc>>
    \/ \E d \in PartIds(n) : task2_start(d) /\ UNCHANGED <<catalog, disk, cp, fed, job, proc>>
    \/ \E d \in PartIds(n) : task2_finish(d) /\ UNCHANGED <<catalog, disk, cp, fed, job, proc>>
    \/ mr_return /\ UNCHANGED <<catalog, disk, cp, fed, job, proc>>

SpecMR == InitMR /\ [][NextMR]_vars

-----------------------------------------------------------------------------
(* Claims about the shuffle (specification SpecMR).                        *)

\* the pairs map_op emits on input partition src, in emission order
Emitted(src) == MapOp(mr.mapper, Cursor(parts[src]))

SelectPairs(pairs, Keep(_)) ==
    LET RECURSIVE Sel(_)
        Sel(i) == IF i > Len(pairs) THEN <<>>
                  ELSE (IF Keep(pairs[i]) THEN <<pairs[i]>> ELSE <<>>) \o Sel(i + 1)
    IN Sel(1)

\* all emissions, by ascending source partition and emission index
RECURSIVE EmittedFrom(_)
EmittedFrom(src) == IF src >= n THEN <<>> ELSE Emitted(src) \o EmittedFrom(src + 1)

RoutedTo(d) ==
    LET Keep(pr) == Partitioner(mr.partitioner, pr[1], n) = d
    IN SelectPairs(EmittedFrom(0), Keep)

ValuesOf(k) ==
    LET Keep(pr) == pr[1] = k
        prs == SelectPairs(EmittedFrom(0), Keep)
    IN [i \in 1..Len(prs) |-> prs[i][2]]

EmittedKeys == {EmittedFrom(0)[i][1] : i \in 1..Len(EmittedFrom(0))}

RECURSIVE SumSeq(_)
SumSeq(vs) == IF vs = <<>> THEN 0 ELSE Head(vs) + SumSeq(Tail(vs))

MaxSeq(vs) == CHOOSE m \in {vs[i] : i \in 1..Len(vs)} : \A i \in 1..Len(vs) : vs[i] <= m

\* the reduction of a bag of values under an associative, commutative reducer
Reduction(R, vs) == IF R = "add" THEN SumSeq(vs) ELSE MaxSeq(vs)

AssociativeCommutative == {"add", "max"}

\* C2: no stage 2 task starts before every stage 1 task has finished and
\* committed, and the stage 2 task of destination d reads every emission that
\* stage 1 routed to d.
C2_StageBarrier ==
    \A d \in DOMAIN task2 :
        /\ task2[d].st \in {"running", "done"} => \A s \in PartIds(n) : task1[s] = "done"
        /\ task2[d].st = "done" => task2[d].seen = RoutedTo(d)

\* a stage 2 task has read emissions of two source partitions
C2_Witness ==
    \E d \in DOMAIN task2 :
        /\ pc = "mr_wait2"
        /\ task2[d].st = "done"
        /\ Len(task2[d].seen) >= 2
        /\ \E s \in PartIds(n), r \in PartIds(n) :
               /\ s # r
               /\ interm[get_shuffle_partition_id(s, d)] # EmptyDb
               /\ interm[get_shuffle_partition_id(r, d)] # EmptyDb

\* C3: with an associative and commutative reducer and a fresh output table,
\* the output keys are exactly the emitted keys, each key is stored in
\* partition output_partitioner(k, n) only, and its value is the reduction of
\* all values emitted for it, whatever the order the worker tasks ran in.
C3_ShuffleReduceResult ==
    (pc = "mr_done" /\ mr.reducer \in AssociativeCommutative) =>
        /\ \A d \in PartIds(n) :
               DOMAIN outp[d] = {k \in EmittedKeys : Partitioner(mr.partitioner, k, n) = d}
        /\ \A k \in EmittedKeys :
               outp[Partitioner(mr.partitioner, k, n)][k] = Reduction(mr.reducer, ValuesOf(k))

\* a key emitted twice by one mapper and by the mappers of two partitions
C3_Witness ==
    /\ pc = "mr_done"
    /\ mr.reducer = "add"
    /\ mr.mapper = "twice"
    /\ \E k \in Keys, p \in PartIds(n), q \in PartIds(n) :
           /\ p # q
           /\ k \in DOMAIN parts[p] /\ k \in DOMAIN parts[q]
           /\ outp[Partitioner(mr.partitioner, k, n)][k] >= 2

\* reducer(...reducer(reducer(v1, v2), v3)..., vm)
LeftFold(R, vs) ==
    LET RECURSIVE Fold(_, _)
        Fold(acc, i) == IF i > Len(vs) THEN acc ELSE Fold(ReduceOp(R, acc, vs[i]), i + 1)
    IN Fold(vs[1], 2)

\* C32: in shuffle+reduce into a fresh output table the value stored for a
\* key k in its destination partition is the left fold of the reducer over
\* the values emitted for k, ordered by ascending source partition and, within
\* a source partition, by ascending emit index, under every schedule of the
\* worker tasks and also for a reducer that is not commutative or associative.
C32_ReduceOrder ==
    pc = "mr_done" =>
        \A k \in EmittedKeys :
            LET d == Partitioner(mr.partitioner, k, n)
            IN /\ ~DbMisses(outp[d], k)
               /\ DbGet(outp[d], k) = LeftFold(mr.reducer, ValuesOf(k))

\* a key emitted with the values 0 then 1 by two source partitions, reduced
\* with the non-commutative reducer
C32_Witness ==
    /\ pc = "mr_done"
    /\ mr.reducer = "shift"
    /\ \E k \in EmittedKeys :
           /\ Len(ValuesOf(k)) >= 2
           /\ ValuesOf(k)[1] # ValuesOf(k)[Len(ValuesOf(k))]
           /\ \E p \in PartIds(n), q \in PartIds(n) :
                  /\ p # q
                  /\ \E i \in 1..Len(Emitted(p)) : Emitted(p)[i][1] = k
                  /\ \E i \in 1..Len(Emitted(q)) : Emitted(q)[i][1] = k

\* C22: when map_reduce_partitions_with_index in shuffle+reduce mode has
\* returned, the intermediate shuffle table is gone from the disk: no
\* intermediate partition "<src>_<dst>" and no other partition directory of
\* the intermediate table remains.
C22_IntermediateRemoved ==
    pc = "mr_done" =>
        /\ \A s \in PartIds(n), d \in PartIds(n) :
               get_shuffle_partition_id(s, d) \notin DOMAIN interm
        /\ DOMAIN interm = {}

\* the call has returned after a stage 2 task read intermediate pairs
C22_Witness ==
    /\ pc = "mr_done"
    /\ \E d \in PartIds(n) : Len(task2[d].seen) >= 1

-----------------------------------------------------------------------------
(* join / union / subtract_by_key (specification SpecBin): Table._binary   *)
(* aligns the partition counts, Session._submit_binary runs one task per   *)
(* partition, and the result is wrapped by _create_table.                  *)

BinaryOps == {"join", "union", "subtract_by_key"}
MergeOps == {"left", "right", "add"}
TablePartitioners == {"first_byte", "length"}

\* merge_op(left_value, right_value): user code; "left" is the default of union
MergeOp(F, l, r) ==
    CASE F = "left"  -> l
      [] F = "right" -> r
      [] F = "add"   -> l + r
      [] F = "raising" -> l + r

\* def _create_table(session, name, namespace, partitions, key_serdes_type,
\*                   value_serdes_type, partitioner_type, need_cleanup=True, error_if_exist=False)
CreateTableParams ==
    <<"session", "name", "namespace", "partitions", "key_serdes_type",
      "value_serdes_type", "partitioner_type", "need_cleanup", "error_if_exist">>
CreateTableDefaults == {"need_cleanup", "error_if_exist"}

\* def put_all(self, kv_list, partitioner)
PutAllParams == <<"self", "kv_list", "partitioner">>
PutAllDefaults == {}

\* Python binds a call when every parameter gets a positional argument, a
\* keyword argument or its default; otherwise the call raises TypeError
Binds(params, defaults, npositional, keywords) ==
    \A i \in 1..Len(params) :
        i <= npositional \/ params[i] \in keywords \/ params[i] \in defaults

\* Table._repartition line 450: _create_table(self._session, name, namespace, partitions, need_cleanup)
RepartitionCreateTableBinds == Binds(CreateTableParams, CreateTableDefaults, 5, {})

\* Table._repartition line 451: dup.put_all(self.collect())
RepartitionPutAllBinds == Binds(PutAllParams, PutAllDefaults, 2, {})

\* Table._repartition with partitions # self._partitions
repartition_raises == ~RepartitionCreateTableBinds \/ ~RepartitionPutAllBinds

\* Table._binary lines 413-419: _create_table with every parameter as a keyword
BinaryCreateTableBinds ==
    Binds(CreateTableParams, CreateTableDefaults, 0,
          {"session", "name", "namespace", "partitions", "need_cleanup",
           "key_serdes_type", "value_serdes_type", "partitioner_type"})

\* _do_join lines 1171-1181 over the left cursor
RECURSIVE JoinLoop(_, _, _, _, _)
JoinLoop(dst, lcur, i, rdb, F) ==
    IF i > Len(lcur) THEN dst
    ELSE LET k == lcur[i][1]
         IN JoinLoop(IF DbMisses(rdb, k) THEN dst
                     ELSE DbPut(dst, k, MergeOp(F, lcur[i][2], DbGet(rdb, k))),
                     lcur, i + 1, rdb, F)

\* _do_subtract_by_key lines 1152-1155
RECURSIVE SubtractLoop(_, _, _, _)
SubtractLoop(dst, lcur, i, rdb) ==
    IF i > Len(lcur) THEN dst
    ELSE LET k == lcur[i][1]
         IN SubtractLoop(IF DbMisses(rdb, k) THEN DbPut(dst, k, lcur[i][2]) ELSE dst,
                         lcur, i + 1, rdb)

\* _do_union lines 1197-1204: process left op
RECURSIVE UnionLeftLoop(_, _, _, _, _)
UnionLeftLoop(dst, lcur, i, rdb, F) ==
    IF i > Len(lcur) THEN dst
    ELSE LET k == lcur[i][1]
         IN UnionLeftLoop(IF DbMisses(rdb, k) THEN DbPut(dst, k, lcur[i][2])
                          ELSE DbPut(dst, k, MergeOp(F, lcur[i][2], DbGet(rdb, k))),
                          lcur, i + 1, rdb, F)

\* _do_union lines 1207-1211: process right op
RECURSIVE UnionRightLoop(_, _, _)
UnionRightLoop(dst, rcur, i) ==
    IF i > Len(rcur) THEN dst
    ELSE LET k == rcur[i][1]
         IN UnionRightLoop(IF DbMisses(dst, k) THEN DbPut(dst, k, rcur[i][2]) ELSE dst,
                           rcur, i + 1)

do_join(dst, ldb, rdb, F) == JoinLoop(dst, Cursor(ldb), 1, rdb, F)

do_subtract_by_key(dst, ldb, rdb) == SubtractLoop(dst, Cursor(ldb), 1, rdb)

do_union(dst, ldb, rdb, F) ==
    UnionRightLoop(UnionLeftLoop(dst, Cursor(ldb), 1, rdb, F), Cursor(rdb), 1)

\* the task of one partition: do_func(_BinaryProcess(task_info, left, right))
DoFunc(op, dst, ldb, rdb, F) ==
    CASE op = "join"            -> do_join(dst, ldb, rdb, F)
      [] op = "union"           -> do_union(dst, ldb, rdb, F)
      [] op = "subtract_by_key" -> do_subtract_by_key(dst, ldb, rdb)

BinRunning == Cardinality({p \in DOMAIN bin.tasks : bin.tasks[p] = "running"})

\* Table._binary lines 391-408: align the partition counts, submit the tasks
binary_call ==
    /\ pc = "bin_start"
    /\ IF n # bin.rn
       THEN \* line 394: the table with fewer entries is repartitioned
            LET src == IF count(bin.rparts, bin.rn) > count(parts, n) THEN "left" ELSE "right"
            IN /\ repartition_raises
               /\ pc' = "bin_failed"
               /\ bin' = [bin EXCEPT !.result = "TypeError", !.repartitioned = src]
               /\ last' = [op |-> bin.op, outcome |-> "raised", nput |-> 0]
               /\ UNCHANGED outp
       ELSE /\ pc' = "bin_wait"
            /\ bin' = [bin EXCEPT !.tasks = [p \in PartIds(n) |-> "queued"]]
            /\ outp' = EmptyTable(n)
            /\ UNCHANGED last
    /\ UNCHANGED <<n, parts, txn, call, written, mr, task1, task2, interm>>

bin_task_start(p) ==
    /\ pc = "bin_wait"
    /\ bin.tasks[p] = "queued"
    /\ BinRunning < MaxWorkers
    /\ bin' = [bin EXCEPT !.tasks[p] = "running"]
    /\ UNCHANGED <<n, parts, pc, txn, call, last, written, mr, task1, task2, interm, outp>>

bin_task_finish(p) ==
    /\ pc = "bin_wait"
    /\ bin.tasks[p] = "running"
    /\ outp' = [outp EXCEPT ![p] = DoFunc(bin.op, outp[p], parts[p], bin.rparts[p], bin.merge)]
    /\ bin' = [bin EXCEPT !.tasks[p] = "done"]
    /\ UNCHANGED <<n, parts, pc, txn, call, last, written, mr, task1, task2, interm>>

\* Session._submit_binary lines 655-659 and Table._binary lines 409-420
binary_return ==
    /\ pc = "bin_wait"
    /\ \A p \in PartIds(n) : bin.tasks[p] = "done"
    /\ BinaryCreateTableBinds
    /\ pc' = "bin_done"
    /\ bin' = [bin EXCEPT !.result = "Table"]
    /\ last' = [op |-> bin.op, outcome |-> "ok", nput |-> 0]
    /\ UNCHANGED <<n, parts, txn, call, written, mr, task1, task2, interm, outp>>

\* the table of np partitions that put_all(pairs of m, P) builds
Placed(m, P, np) ==
    [p \in PartIds(np) |-> [k \in {x \in DOMAIN m : Partitioner(P, x, np) = p} |-> m[k]]]

SmallDbs == {m \in Dbs : DbEntries(m) <= MaxInput}

InitBin ==
    /\ n \in 1..MaxPartitions
    /\ \E m \in SmallDbs, P \in TablePartitioners : parts = Placed(m, P, n)
    /\ pc = "bin_start"
    /\ txn = NoTxn
    /\ call = NoCall
    /\ last = Idle
    /\ written = {}
    /\ MRUnused
    /\ \E op \in BinaryOps, F \in MergeOps, rn \in 1..MaxPartitions,
          m \in SmallDbs, P \in TablePartitioners :
           /\ op = "subtract_by_key" => F = "left"
           /\ bin = [op |-> op, merge |-> F, rn |-> rn, rparts |-> Placed(m, P, rn),
                     tasks |-> <<>>, result |-> "none", repartitioned |-> "none"]
    /\ CatUnused

NextBin ==
    \/ binary_call /\ UNCHANGED <<catalog, disk, cp, fed, job, proc>>
    \/ \E p \in PartIds(n) : bin_task_start(p) /\ UNCHANGED <<catalog, disk, cp, fed, job, proc>>
    \/ \E p \in PartIds(n) : bin_task_finish(p) /\ UNCHANGED <<catalog, disk, cp, fed, job, proc>>
    \/ binary_return /\ UNCHANGED <<catalog, disk, cp, fed, job, proc>>

SpecBin == InitBin /\ [][NextBin]_vars

-----------------------------------------------------------------------------
(* Claims about the binary operators (specification SpecBin).              *)

TableKeys(t, np) == UNION {DOMAIN t[p] : p \in PartIds(np)}

\* the value of key k in a table that stores k
TableGet(t, np, k) == LET p == CHOOSE q \in PartIds(np) : k \in DOMAIN t[q] IN t[p][k]

LeftKeys == TableKeys(parts, n)
RightKeys == TableKeys(bin.rparts, bin.rn)
LeftGet(k) == TableGet(parts, n, k)
RightGet(k) == TableGet(bin.rparts, bin.rn, k)

\* the call has returned a table or raised
BinEnded == pc \in {"bin_done", "bin_failed"}

\* no key of one table sits in a different partition index of the other
CoPartitioned ==
    /\ n = bin.rn
    /\ \A p \in PartIds(n), q \in PartIds(n) :
           p # q => (DOMAIN parts[p]) \cap (DOMAIN bin.rparts[q]) = {}

JoinResult ==
    /\ bin.result = "Table"
    /\ TableKeys(outp, n) = LeftKeys \cap RightKeys
    /\ \A k \in LeftKeys \cap RightKeys :
           TableGet(outp, n, k) = MergeOp(bin.merge, LeftGet(k), RightGet(k))

SubtractResult ==
    /\ bin.result = "Table"
    /\ TableKeys(outp, n) = LeftKeys \ RightKeys
    /\ \A k \in LeftKeys \ RightKeys : TableGet(outp, n, k) = LeftGet(k)

UnionResult ==
    /\ bin.result = "Table"
    /\ TableKeys(outp, n) = LeftKeys \cup RightKeys
    /\ count(outp, n) = Cardinality(LeftKeys \cup RightKeys)
    /\ \A k \in LeftKeys \ RightKeys : TableGet(outp, n, k) = LeftGet(k)
    /\ \A k \in RightKeys \ LeftKeys : TableGet(outp, n, k) = RightGet(k)
    /\ \A k \in LeftKeys \cap RightKeys :
           TableGet(outp, n, k) = MergeOp(bin.merge, LeftGet(k), RightGet(k))

\* C7: for any two tables, join returns a table whose keys are the keys
\* present in both inputs, each with merge_op(left[k], right[k]).
C7_JoinAnyTables == (BinEnded /\ bin.op = "join") => JoinResult

\* C8: for any two tables, subtract_by_key returns a table whose keys are the
\* keys in left and not in right, each with left's value.
C8_SubtractAnyTables == (BinEnded /\ bin.op = "subtract_by_key") => SubtractResult

\* C9: for any two tables, union returns a table whose keys are the union of
\* both key sets, each once; a key of one side keeps that side's value and a
\* key of both sides gets merge_op(left[k], right[k]).
C9_UnionAnyTables == (BinEnded /\ bin.op = "union") => UnionResult

\* C10: a binary operator on tables with different partition counts never
\* fails because of the mismatch: the table with fewer entries (the right one
\* on a tie) is repartitioned and the call completes with an output table of
\* the other table's partition count.
C10_MismatchNeverFails ==
    (BinEnded /\ n # bin.rn) =>
        /\ pc = "bin_done"
        /\ bin.result = "Table"
        /\ DOMAIN outp = PartIds(IF count(bin.rparts, bin.rn) > count(parts, n)
                                 THEN bin.rn ELSE n)

\* The operators on aligned inputs: with equal partition counts and every
\* common key in the same partition index of both tables, the three results
\* are as C7, C8 and C9 describe them.
BinaryAlignedResult ==
    (pc = "bin_done" /\ CoPartitioned) =>
        CASE bin.op = "join"            -> JoinResult
          [] bin.op = "union"           -> UnionResult
          [] bin.op = "subtract_by_key" -> SubtractResult

\* With equal partition counts the call always returns a table.
BinaryEqualCountsReturn == (BinEnded /\ n = bin.rn) => pc = "bin_done"

-----------------------------------------------------------------------------
(* The table-meta catalog, the data directory and the calls that create    *)
(* tables in them: _create_table, Table.copy_as, Table.save_as             *)
(* (specification SpecCat).  Strings are sequences of characters.          *)

SessionId == <<"s">>

\* the table identities <<namespace, name>> of the model
SrcId == <<SessionId, <<"a">>>>
OldId == <<SessionId, <<"b">>>>
NewId == <<SessionId, <<"c">>>>
TableIds == {SrcId, OldId, NewId}

\* Python values whose type the code depends on
PyInt(i) == [type |-> "int", value |-> i]
PyNone == [type |-> "NoneType", value |-> 0]
PyTableMeta(m) == [type |-> "_TableMeta", value |-> m]

\* int.from_bytes(b, "big") of four bytes
FromBytes4(b) == b[1] * 16777216 + b[2] * 65536 + b[3] * 256 + b[4]

\* _hash_namespace_name_to_partition line 1281: f"{name}.{namespace}"
MetaKey(namespace, name) == name \o <<".">> \o namespace

TableMeta(np, k, v, p) ==
    [num_partitions |-> np, key_serdes_type |-> k, value_serdes_type |-> v,
     partitioner_type |-> p]

\* _TableMeta.serialize: four big-endian u32 fields
TableMetaSerialize(m) ==
    ToBytes4(m.num_partitions) \o ToBytes4(m.key_serdes_type)
        \o ToBytes4(m.value_serdes_type) \o ToBytes4(m.partitioner_type)

\* _TableMeta.deserialize
TableMetaDeserialize(b) ==
    TableMeta(FromBytes4(SubSeq(b, 1, 4)), FromBytes4(SubSeq(b, 5, 8)),
              FromBytes4(SubSeq(b, 9, 12)), FromBytes4(SubSeq(b, 13, 16)))

\* pickle.dumps(i) of an int below 256: PROTO 4, BININT1 i, STOP; from 256 on
\* a FRAME of BININT2 with the two low bytes in little-endian order
serialize_int(i) ==
    IF i < 256 THEN <<128, 4, 75, i, 46>>
    ELSE <<128, 4, 149, 4, 0, 0, 0, 0, 0, 0, 0, 77, i % 256, (i \div 256) % 256, 46>>

\* pickle.loads(b) skips a PROTO header (protocol 0..5) and a FRAME header
\* whose length the data covers; what is left is the body
PickleBody(b) ==
    LET c == IF Len(b) >= 2 /\ b[1] = 128 /\ b[2] <= 5 THEN SubSeq(b, 3, Len(b)) ELSE b
    IN IF /\ Len(c) >= 9
          /\ c[1] = 149
          /\ c[2] <= Len(c) - 9
          /\ SubSeq(c, 3, 9) = <<0, 0, 0, 0, 0, 0, 0>>
       THEN SubSeq(c, 10, Len(c))
       ELSE c

\* pickle.loads(b) returns an int: the body is BININT1 i STOP or BININT2 lo hi
\* STOP, whatever bytes follow the STOP.  This is the legacy catalog value,
\* and every other byte string that starts like one.
IsPickledInt(b) ==
    LET c == PickleBody(b)
    IN \/ Len(c) >= 3 /\ c[1] = 75 /\ c[3] = 46
       \/ Len(c) >= 4 /\ c[1] = 77 /\ c[4] = 46

\* the int pickle.loads(b) returns
UnpickleInt(b) ==
    LET c == PickleBody(b)
    IN IF c[1] = 75 THEN c[2] ELSE c[2] + 256 * c[3]

\* _TableMetaManager.get_table_meta returns an entry (is not None)
HasTableMeta(cat, id) == MetaKey(id[1], id[2]) \in DOMAIN cat

\* _TableMetaManager.get_table_meta lines 1323-1331, on an existing entry
get_table_meta(cat, id) ==
    LET b == cat[MetaKey(id[1], id[2])]
    IN IF IsPickledInt(b) THEN TableMeta(UnpickleInt(b), 0, 0, 0) ELSE TableMetaDeserialize(b)

AddTableMetaMutant(cat, id, m) == cat

\* _TableMetaManager.add_table_meta
add_table_meta(cat, id, m) == DbPut(cat, MetaKey(id[1], id[2]), TableMetaSerialize(m))

\* Table.__init__
Table(id, partitions, k, v, p, need_cleanup) ==
    [namespace |-> id[1], name |-> id[2], partitions |-> partitions,
     key_serdes_type |-> k, value_serdes_type |-> v, partitioner_type |-> p,
     need_cleanup |-> need_cleanup]

\* _create_table line 801: error_if_exist on an existing entry
CreateTableRaises(cat, id, error_if_exist) == HasTableMeta(cat, id) /\ error_if_exist

CreateTableCatalogMutant(cat, id, m) == add_table_meta(cat, id, m)

\* _create_table lines 796-799: the entry is added when there is none
CreateTableCatalog(cat, id, m) ==
    IF HasTableMeta(cat, id) THEN cat ELSE add_table_meta(cat, id, m)

\* _create_table lines 796-814: the handle; line 803 binds partitions to what
\* get_table_meta returned, the type tags stay the caller's
CreateTableHandle(cat, id, m, need_cleanup) ==
    Table(id,
          IF HasTableMeta(cat, id) THEN PyTableMeta(get_table_meta(cat, id))
          ELSE PyInt(m.num_partitions),
          m.key_serdes_type, m.value_serdes_type, m.partitioner_type, need_cleanup)

\* _load_table lines 817-830, on an existing entry
LoadTableHandle(cat, id, need_cleanup) ==
    LET m == get_table_meta(cat, id)
    IN Table(id, PyInt(m.num_partitions), m.key_serdes_type, m.value_serdes_type,
             m.partitioner_type, need_cleanup)

\* the database of partition p of table id; _open_env creates a missing one empty
PartitionDb(d, id, p) ==
    IF id \in DOMAIN d /\ p \in DOMAIN d[id] THEN d[id][p] ELSE EmptyDb

\* the data directory once partition p of table id holds db
DiskWrite(d, id, p, db) ==
    [x \in (DOMAIN d) \cup {id} |->
        IF x = id
        THEN [q \in (IF id \in DOMAIN d THEN DOMAIN d[id] ELSE {}) \cup {p} |->
                 IF q = p THEN db ELSE d[id][q]]
        ELSE d[x]]

\* _do_mrwi_no_shuffle lines 1055-1056: every mapped pair is put
RECURSIVE NoShuffleLoop(_, _, _)
NoShuffleLoop(dst, items, i) ==
    IF i > Len(items) THEN dst
    ELSE NoShuffleLoop(DbPut(dst, items[i][1], items[i][2]), items, i + 1)

NoShuffleOutputMutant(p, np) == 0

\* _do_mrwi_no_shuffle line 1052: the output partition of task p is p
NoShuffleOutput(p, np) == p

\* _do_mrwi_no_shuffle of partition p with mapper M, from table src into dst
do_mrwi_no_shuffle(d, src, dst, p, np, M) ==
    LET o == NoShuffleOutput(p, np)
    IN DiskWrite(d, dst, o,
                 NoShuffleLoop(PartitionDb(d, dst, o), MapOp(M, Cursor(PartitionDb(d, src, p))), 1))

NoResult == [kind |-> "none"]
Raised(e) == [kind |-> "raised", error |-> e]
Returned(h) == [kind |-> "Table", handle |-> h]

\* what is stored under table id: a partition's database where it has one
Stored(d, id) == IF id \in DOMAIN d THEN d[id] ELSE <<>>

\* a call: its arguments, its tasks and its result, with what the source and
\* the destination held (source, before) and whether the destination had a
\* catalog entry (existed) when the call was made
NoCopy == [op |-> "none", dst |-> SrcId, tasks |-> <<>>, source |-> <<>>, before |-> <<>>,
           existed |-> FALSE, args |-> <<>>, result |-> NoResult]

Called(op, dst, args) ==
    [NoCopy EXCEPT !.op = op, !.dst = dst, !.args = args,
                   !.source = Stored(disk, SrcId), !.before = Stored(disk, dst),
                   !.existed = HasTableMeta(catalog, dst)]

\* the handle of the source table: Session.load of SrcId
SrcHandle == LoadTableHandle(catalog, SrcId, FALSE)

\* Session.create_table -> _create_table
create_table(id, m, error_if_exist) ==
    /\ pc = "cat_idle"
    /\ cp' = [Called("create_table", id, <<m, error_if_exist>>) EXCEPT
                !.result = IF CreateTableRaises(catalog, id, error_if_exist)
                           THEN Raised("RuntimeError")
                           ELSE Returned(CreateTableHandle(catalog, id, m, TRUE))]
    /\ catalog' = IF CreateTableRaises(catalog, id, error_if_exist) THEN catalog
                  ELSE CreateTableCatalog(catalog, id, m)
    /\ UNCHANGED <<n, pc, disk>>

\* Table.copy_as lines 428-440 and map_reduce_partitions_with_index lines
\* 259-271: one _do_mrwi_no_shuffle task per partition is submitted
copy_as(dst) ==
    /\ pc = "cat_idle"
    /\ pc' = "cp_wait"
    /\ cp' = [Called("copy_as", dst, <<>>) EXCEPT
                !.tasks = [p \in PartIds(n) |-> "queued"]]
    /\ UNCHANGED <<n, catalog, disk>>

\* Table.save_as lines 422-426
save_as(dst, partitions) ==
    /\ pc = "cat_idle"
    /\ IF partitions # PyNone /\ partitions # PyInt(n)
       THEN \* line 424: self._repartition(partitions=partitions, need_cleanup=True)
            /\ repartition_raises
            /\ cp' = [Called("save_as", dst, <<partitions>>) EXCEPT
                        !.result = Raised("TypeError")]
            /\ UNCHANGED pc
       ELSE /\ pc' = "cp_wait"
            /\ cp' = [Called("save_as", dst, <<partitions>>) EXCEPT
                        !.tasks = [p \in PartIds(n) |-> "queued"]]
    /\ UNCHANGED <<n, catalog, disk>>

CpRunning == Cardinality({p \in DOMAIN cp.tasks : cp.tasks[p] = "running"})

copy_task_start(p) ==
    /\ pc = "cp_wait"
    /\ cp.tasks[p] = "queued"
    /\ CpRunning < MaxWorkers
    /\ cp' = [cp EXCEPT !.tasks[p] = "running"]
    /\ UNCHANGED <<n, pc, catalog, disk>>

\* the task body runs and the ExitStack commits its write transaction
copy_task_finish(p) ==
    /\ pc = "cp_wait"
    /\ cp.tasks[p] = "running"
    /\ disk' = do_mrwi_no_shuffle(disk, SrcId, cp.dst, p, n, "identity")
    /\ cp' = [cp EXCEPT !.tasks[p] = "done"]
    /\ UNCHANGED <<n, pc, catalog>>

\* map_reduce_partitions_with_index lines 272-283: the results are gathered
\* and the output is wrapped by _create_table
copy_return ==
    /\ pc = "cp_wait"
    /\ \A p \in PartIds(n) : cp.tasks[p] = "done"
    /\ LET h == SrcHandle
           m == TableMeta(n, h.key_serdes_type, h.value_serdes_type, h.partitioner_type)
       IN /\ catalog' = CreateTableCatalog(catalog, cp.dst, m)
          /\ cp' = [cp EXCEPT !.result = Returned(CreateTableHandle(catalog, cp.dst, m, TRUE))]
    /\ pc' = "cat_idle"
    /\ UNCHANGED <<n, disk>>

\* the metadata create_table is called with, and that of the source table
TableMetas == {TableMeta(np, 0, 0, 0) : np \in 1..MaxPartitions}
SrcMeta == TableMeta(n, 1, 1, 1)

\* the contents of the source table, and of a table that exists before the calls
SrcDbs == {m \in SmallDbs : \A k \in DOMAIN m : m[k] = 1}
OldDbs == {EmptyDb, [k \in {<<1>>} |-> 0]}

InitCat ==
    /\ n \in 1..MaxPartitions
    /\ pc = "cat_idle"
    /\ cp = NoCopy
    /\ \E src \in SrcDbs :
         \/ /\ catalog = add_table_meta(EmptyDb, SrcId, SrcMeta)
            /\ disk = [x \in {SrcId} |-> Placed(src, "first_byte", n)]
         \/ \E om \in TableMetas, old \in OldDbs :
              /\ catalog = add_table_meta(add_table_meta(EmptyDb, SrcId, SrcMeta), OldId, om)
              /\ disk = [x \in {SrcId, OldId} |->
                            IF x = SrcId THEN Placed(src, "first_byte", n)
                            ELSE Placed(old, "length", om.num_partitions)]
    /\ parts = <<>>
    /\ txn = NoTxn
    /\ call = NoCall
    /\ last = Idle
    /\ written = {}
    /\ MRUnused
    /\ bin = <<>>
    /\ fed = <<>>
    /\ job = <<>>
    /\ proc = <<>>

CatFrame == UNCHANGED <<parts, txn, call, last, written, mr, task1, task2, interm, outp, bin, fed, job, proc>>

NextCat ==
    \/ \E id \in {OldId, NewId}, m \in TableMetas, e \in BOOLEAN :
           create_table(id, m, e) /\ CatFrame
    \/ \E dst \in {OldId, NewId} : copy_as(dst) /\ CatFrame
    \/ \E dst \in {OldId, NewId}, np \in {PyNone} \cup {PyInt(i) : i \in 1..MaxPartitions} :
           save_as(dst, np) /\ CatFrame
    \/ \E p \in PartIds(n) : copy_task_start(p) /\ CatFrame
    \/ \E p \in PartIds(n) : copy_task_finish(p) /\ CatFrame
    \/ copy_return /\ CatFrame

SpecCat == InitCat /\ [][NextCat]_vars

-----------------------------------------------------------------------------
(* Claims about the catalog and the copies (specification SpecCat).        *)

\* a copy_as or a save_as call has returned a table
CopyReturned(op) == pc = "cat_idle" /\ cp.op = op /\ cp.result.kind = "Table"

\* a call has ended, with a table or with an error
CallEnded(op) == pc = "cat_idle" /\ cp.op = op /\ cp.result.kind # "none"

\* partition i of what was stored under the destination when the call was made
Before(i) == IF i \in DOMAIN cp.before THEN cp.before[i] ELSE EmptyDb

\* nothing was stored under the destination when the call was made
DestinationEmpty == \A i \in DOMAIN cp.before : cp.before[i] = EmptyDb

\* the pairs of db over those of under: db wins on a common key
Over(db, under) ==
    [k \in (DOMAIN db) \cup (DOMAIN under) |-> IF k \in DOMAIN db THEN db[k] ELSE under[k]]

SourceUnchanged == Stored(disk, SrcId) = cp.source

\* the partition count the catalog records for the table a call returned
RecordedPartitions(id) == get_table_meta(catalog, id).num_partitions

\* C11 as stated: copy_as returns a table with the source's partition count in
\* which partition i holds exactly the pairs of the source's partition i, for
\* every i, and the source is unchanged.
C11_CopyAsExact ==
    CopyReturned("copy_as") =>
        /\ RecordedPartitions(cp.dst) = n
        /\ \A i \in PartIds(n) : PartitionDb(disk, cp.dst, i) = PartitionDb(disk, SrcId, i)
        /\ SourceUnchanged

\* C11 amended: copy_as leaves the source unchanged and puts the pairs of the
\* source's partition i into partition i of the table stored under the given
\* identity, over what that partition held before, and touches no other
\* partition; when nothing was stored there before, partition i holds exactly
\* the source's pairs, and when the identity had no catalog entry the returned
\* table has the source's partition count.
C11_CopyAsOver ==
    CopyReturned("copy_as") =>
        /\ SourceUnchanged
        /\ \A i \in PartIds(n) :
               PartitionDb(disk, cp.dst, i) = Over(PartitionDb(disk, SrcId, i), Before(i))
        /\ \A i \in (DOMAIN disk[cp.dst]) \ PartIds(n) : disk[cp.dst][i] = Before(i)
        /\ DestinationEmpty =>
               \A i \in PartIds(n) : PartitionDb(disk, cp.dst, i) = PartitionDb(disk, SrcId, i)
        /\ ~cp.existed =>
               RecordedPartitions(cp.dst) = n /\ cp.result.handle.partitions = PyInt(n)

\* copy_as has returned from a destination that held a pair under a key the
\* source does not have, and from a source with a pair outside partition 0
C11_Witness ==
    /\ CopyReturned("copy_as")
    /\ \E i \in PartIds(n) : \E k \in DOMAIN Before(i) : k \notin DOMAIN PartitionDb(disk, SrcId, i)
    /\ \E i \in PartIds(n) \ {0} : PartitionDb(disk, SrcId, i) # EmptyDb

\* the partition count save_as is asked for
SaveAsPartitions == IF cp.args[1] = PyNone THEN n ELSE cp.args[1].value

\* C12: save_as(name, namespace, partitions=P) returns a table holding exactly
\* the key-value set of the source, with P partitions when P differs from the
\* source's partition count and with the source's partition count otherwise.
C12_SaveAs ==
    CallEnded("save_as") =>
        /\ cp.result.kind = "Table"
        /\ cp.result.handle.partitions = PyInt(SaveAsPartitions)
        /\ LET out == [i \in PartIds(SaveAsPartitions) |-> PartitionDb(disk, cp.dst, i)]
           IN /\ TableKeys(out, SaveAsPartitions) = TableKeys(disk[SrcId], n)
              /\ \A k \in TableKeys(out, SaveAsPartitions) :
                     TableGet(out, SaveAsPartitions, k) = TableGet(disk[SrcId], n, k)

\* C13: create_table on an identity that already has a catalog entry changes
\* neither the catalog nor the stored data; with error_if_exist=false it
\* returns a handle, with error_if_exist=true it raises an already-exists error.
C13_CreateExisting ==
    [][(pc = "cat_idle" /\ cp'.op = "create_table" /\ HasTableMeta(catalog, cp'.dst)) =>
          /\ catalog' = catalog
          /\ disk' = disk
          /\ IF cp'.args[2] THEN cp'.result = Raised("RuntimeError")
             ELSE cp'.result.kind = "Table"]_vars

\* create_table with error_if_exist=false has returned a handle for an identity
\* whose catalog entry differs from the metadata the caller passed
C13_Witness ==
    /\ CallEnded("create_table")
    /\ cp.existed /\ ~cp.args[2]
    /\ cp.result.kind = "Table"
    /\ get_table_meta(catalog, cp.dst) # cp.args[1]

\* C14: the catalog entry is authoritative: the handle create_table returns
\* for an identity that already has a catalog entry has an integer
\* num_partitions and the three type tags of the catalog entry, whatever the
\* caller passed.
C14_CatalogAuthoritative ==
    (CallEnded("create_table") /\ cp.existed /\ cp.result.kind = "Table") =>
        LET h == cp.result.handle
            m == get_table_meta(catalog, cp.dst)
        IN /\ h.partitions = PyInt(m.num_partitions)
           /\ h.key_serdes_type = m.key_serdes_type
           /\ h.value_serdes_type = m.value_serdes_type
           /\ h.partitioner_type = m.partitioner_type

\* On an identity without a catalog entry, create_table records the caller's
\* metadata and returns a handle that carries it.
CreateTableFresh ==
    (CallEnded("create_table") /\ ~cp.existed) =>
        /\ cp.result.kind = "Table"
        /\ get_table_meta(catalog, cp.dst) = cp.args[1]
        /\ cp.result.handle.partitions = PyInt(cp.args[1].num_partitions)

\* save_as with the source's partition count, or with none, is copy_as.
SaveAsSameCount ==
    (CallEnded("save_as") /\ SaveAsPartitions = n) =>
        /\ cp.result.kind = "Table"
        /\ \A i \in PartIds(n) :
               PartitionDb(disk, cp.dst, i) = Over(PartitionDb(disk, SrcId, i), Before(i))

-----------------------------------------------------------------------------
(* Federation (specification SpecFed): the parties of one session pass     *)
(* values through the status table and the object table of the receiving   *)
(* party.  Every party is a process of its own; remote and get are         *)
(* modelled step by step, one storage transaction per step.                *)

\* PartyMeta = (role, party_id)
Guest == <<<<"g">>, <<"9">>>>
Host == <<<<"h">>, <<"1">>>>
Arbiter == <<<<"a">>, <<"2">>>>
Local == <<<<"l">>, <<"0">>>>

Senders == {Guest, Host}
Receivers == {Arbiter, Local}

\* the parties lists remote and get are called with
RemoteParties(s) == IF s = Guest THEN {<<Arbiter>>, <<Arbiter, Local>>} ELSE {<<Arbiter>>}
GetParties(r) == IF r = Arbiter THEN {<<Guest>>, <<Guest, Host>>, <<Host, Guest>>} ELSE {<<Guest>>}

FedName == <<"x">>
FedTag == <<"0">>

\* Federation._max_message_size, scaled to the payloads of the model
MaxMessageSizes == {6, 16}

\* Python values: payloads, status values and results
PyBytes(b) == [type |-> "bytes", value |-> b]
PyStr(x) == [type |-> "str", value |-> x]
PyTuple(t) == [type |-> "tuple", value |-> t]
PyTable(h) == [type |-> "Table", value |-> h]
PyError(e) == [type |-> e, value |-> 0]

\* the objects sent: byte strings of length 0, 1 and 2
Objects == {PyBytes(<<>>), PyBytes(<<7>>), PyBytes(<<7, 8>>)}

\* Federation._federation_object_key line 676
federation_object_key(name, tag, s_party, d_party) ==
    SessionId \o <<"-">> \o name \o <<"-">> \o tag \o <<"-">> \o s_party[1] \o <<"-">>
        \o s_party[2] \o <<"-">> \o d_party[1] \o <<"-">> \o d_party[2]

\* pickle.dumps(v, protocol=4) of None and of a short bytes object:
\* PROTO 4 [FRAME len8] SHORT_BINBYTES len data MEMOIZE STOP
serialize(v) ==
    IF v = PyNone THEN <<128, 4, 78, 46>>
    ELSE <<128, 4, 149, Len(v.value) + 4, 0, 0, 0, 0, 0, 0, 0, 67, Len(v.value)>>
             \o v.value \o <<148, 46>>

\* pickle.loads(b) of what serialize writes; anything else does not unpickle
deserialize(b) ==
    IF b = <<128, 4, 78, 46>> THEN PyNone
    ELSE IF /\ Len(b) >= 15
            /\ SubSeq(b, 1, 3) = <<128, 4, 149>>
            /\ b[4] = Len(b) - 11
            /\ SubSeq(b, 5, 11) = <<0, 0, 0, 0, 0, 0, 0>>
            /\ b[12] = 67
            /\ b[13] = Len(b) - 15
            /\ SubSeq(b, Len(b) - 1, Len(b)) = <<148, 46>>
         THEN PyBytes(SubSeq(b, 14, Len(b) - 2))
         ELSE PyError("UnpicklingError")

NumSliceMutant(byte_size, max_message_size) == byte_size \div max_message_size + 1

\* _get_splits line 665
NumSlice(byte_size, max_message_size) == (byte_size - 1) \div max_message_size + 1

\* _get_splits lines 662-671: (obj, num_slice) or (kv, num_slice)
get_splits(obj, max_message_size) ==
    LET obj_bytes == serialize(obj)
        byte_size == Len(obj_bytes)
        num_slice == NumSlice(byte_size, max_message_size)
    IN [num_slice |-> num_slice,
        kv |-> IF num_slice <= 1 THEN <<>>
               ELSE [i \in 1..num_slice |->
                       <<serialize_int(i - 1),
                         SubSeq(obj_bytes, (i - 1) * max_message_size + 1,
                                Min(i * max_message_size, byte_size))>>]]

\* b"".join(map(lambda t: t[1], items))
RECURSIVE JoinValues(_)
JoinValues(items) == IF items = <<>> THEN <<>> ELSE items[1][2] \o JoinValues(Tail(items))

\* Federation.remote lines 711-718: _create_table with six keywords
RemoteCreateTableBinds ==
    Binds(CreateTableParams, CreateTableDefaults, 0,
          {"session", "name", "namespace", "partitions", "need_cleanup", "error_if_exist"})

\* Federation.remote line 719: v.put_all(kv_list=v_splits)
RemotePutAllBinds == Binds(PutAllParams, PutAllDefaults, 1, {"kv_list"})

\* Federation.remote lines 710-719 with num_slice > 1
remote_split_raises == ~RemoteCreateTableBinds \/ ~RemotePutAllBinds

RemoteRejectsMutant(v) == FALSE

\* Federation.remote line 697: if v is None
RemoteRejects(v) == v = PyNone

Uuid1Mutant(c) == <<"u", "1">>

\* str(uuid.uuid1()): the c-th name generated, unlike every earlier one
Uuid1(c) == <<"u", <<"1", "2", "3", "4", "5", "6">>[c]>>

EmptyStatus == [r \in Receivers |-> EmptyDb]

SenderIdle ==
    [pc |-> "idle", v |-> PyNone, parties |-> <<>>, i |-> 0, dtype |-> "none",
     num_slice |-> 0, error |-> "none", sent |-> <<>>]

ReceiverIdle ==
    [pc |-> "idle", parties |-> <<>>, i |-> 0, results |-> <<>>, rtn |-> <<>>,
     error |-> "none", destroyed |-> {}]

\* _FederationMetaManager._set / _ack on the table of party r
FedSet(tables, r, key, value) == [tables EXCEPT ![r] = DbPut(@, key, value)]
FedAck(tables, r, key) == [tables EXCEPT ![r] = DbDelete(@, key)]

SetObjectMutant(tables, party, key, value) == tables

\* Federation.remote line 740: self._meta.set_object(party, _tagged_key, v)
set_object(tables, party, key, value) == FedSet(tables, party, key, value)

\* Federation.remote lines 694-727: the payload is checked and classified
remote_call(s, v, parties) ==
    /\ fed.snd[s].pc = "idle"
    /\ LET call0 == [SenderIdle EXCEPT !.v = v, !.parties = parties, !.i = 1]
       IN IF RemoteRejects(v)
          THEN fed' = [fed EXCEPT !.snd[s] = [call0 EXCEPT !.pc = "raised", !.error = "ValueError"]]
          ELSE IF v.type = "Table"
          THEN fed' = [fed EXCEPT !.snd[s] = [call0 EXCEPT !.pc = "put", !.dtype = "Table"]]
          ELSE LET sp == get_splits(v, fed.max_message_size)
               IN IF sp.num_slice > 1
                  THEN /\ remote_split_raises
                       /\ fed' = [fed EXCEPT !.snd[s] =
                                     [call0 EXCEPT !.pc = "raised", !.error = "TypeError",
                                                   !.num_slice = sp.num_slice]]
                  ELSE fed' = [fed EXCEPT !.snd[s] =
                                  [call0 EXCEPT !.pc = "put", !.dtype = "obj",
                                                !.num_slice = sp.num_slice]]
    /\ UNCHANGED <<n, catalog, disk>>

\* Table.copy_as as Federation.remote line 737 runs it: every partition task
\* and the _create_table of the output
CopyAll(d, src, dst, np) ==
    LET RECURSIVE Tasks(_, _)
        Tasks(dd, p) == IF p >= np THEN dd
                        ELSE Tasks(do_mrwi_no_shuffle(dd, src, dst, p, np, "identity"), p + 1)
    IN Tasks(d, 0)

\* Federation.remote lines 729-740: the copy of the table, or the object entry,
\* for the party the loop is at
remote_put(s) ==
    /\ fed.snd[s].pc = "put"
    /\ LET c == fed.snd[s]
           party == c.parties[c.i]
           key == federation_object_key(FedName, FedTag, s, party)
       IN IF c.v.type = "Table"
          THEN LET h == c.v.value
                   src == <<h.namespace, h.name>>
                   dst == <<h.namespace, Uuid1(fed.uuid)>>
                   m == TableMeta(h.partitions.value, h.key_serdes_type, h.value_serdes_type,
                                  h.partitioner_type)
               IN /\ disk' = CopyAll(disk, src, dst, h.partitions.value)
                  /\ catalog' = CreateTableCatalog(catalog, dst, m)
                  /\ fed' = [fed EXCEPT !.uuid = @ + 1,
                                        !.snd[s].pc = "publish",
                                        !.snd[s].sent = Append(@, dst)]
          ELSE /\ fed' = [fed EXCEPT !.object = set_object(@, party, key, serialize(c.v)),
                                     !.snd[s].pc = "publish",
                                     !.snd[s].sent = Append(@, key)]
               /\ UNCHANGED <<catalog, disk>>
    /\ UNCHANGED n

\* Federation.remote lines 738 and 741: the status entry of the party
remote_publish(s) ==
    /\ fed.snd[s].pc = "publish"
    /\ LET c == fed.snd[s]
           party == c.parties[c.i]
           key == federation_object_key(FedName, FedTag, s, party)
           value == IF c.v.type = "Table"
                    THEN PyTuple(<<c.sent[c.i][2], c.sent[c.i][1], c.dtype>>)
                    ELSE PyStr(key)
       IN fed' = [fed EXCEPT !.status = FedSet(@, party, key, value),
                             !.snd[s].i = @ + 1,
                             !.snd[s].pc = IF c.i = Len(c.parties) THEN "done" ELSE "put"]
    /\ UNCHANGED <<n, catalog, disk>>

\* Federation.get lines 744-748
get_call(r, parties) ==
    /\ fed.rcv[r].pc = "idle"
    /\ fed' = [fed EXCEPT !.rcv[r] = [ReceiverIdle EXCEPT !.pc = "wait", !.parties = parties, !.i = 1]]
    /\ UNCHANGED <<n, catalog, disk>>

\* Federation.get lines 749-751 and wait_status_set: the poll that finds the
\* status entry of the party the loop is at (a poll that finds none sleeps)
get_wait(r) ==
    /\ fed.rcv[r].pc = "wait"
    /\ LET c == fed.rcv[r]
           key == federation_object_key(FedName, FedTag, c.parties[c.i], r)
       IN /\ ~DbMisses(fed.status[r], key)
          /\ fed' = [fed EXCEPT !.rcv[r].results = Append(@, DbGet(fed.status[r], key)),
                                !.rcv[r].i = IF c.i = Len(c.parties) THEN 1 ELSE c.i + 1,
                                !.rcv[r].pc = IF c.i = Len(c.parties) THEN "collect" ELSE "wait"]
    /\ UNCHANGED <<n, catalog, disk>>

\* Federation.get lines 754-778: one result is turned into a value and
\* acknowledged; after the last one get returns
get_result(r) ==
    /\ fed.rcv[r].pc = "collect"
    /\ LET c == fed.rcv[r]
           res == c.results[c.i]
           next == IF c.i = Len(c.parties) THEN "done" ELSE "collect"
       IN IF res.type = "tuple"
          THEN LET id == <<res.value[2], res.value[1]>>
               IN IF ~HasTableMeta(catalog, id)
                  THEN fed' = [fed EXCEPT !.rcv[r].pc = "raised", !.rcv[r].error = "RuntimeError"]
                  ELSE LET table == LoadTableHandle(catalog, id, TRUE)
                           np == table.partitions.value
                           content == [p \in PartIds(np) |-> PartitionDb(disk, id, p)]
                           obj == IF res.value[3] = "split_obj"
                                  THEN deserialize(JoinValues(collect(content, np)))
                                  ELSE PyTable(table)
                       IN IF obj.type = "UnpicklingError"
                          THEN fed' = [fed EXCEPT !.rcv[r].pc = "raised",
                                                  !.rcv[r].error = "UnpicklingError"]
                          ELSE \* line 778: ack_status(r) with the status value as the key
                               fed' = [fed EXCEPT !.status = FedAck(@, r, res.value),
                                                  !.rcv[r].rtn = Append(@, obj),
                                                  !.rcv[r].i = @ + 1,
                                                  !.rcv[r].pc = next]
          ELSE IF DbMisses(fed.object[r], res.value)
               THEN fed' = [fed EXCEPT !.rcv[r].pc = "raised", !.rcv[r].error = "EnvironmentError"]
               ELSE fed' = [fed EXCEPT !.object = FedAck(@, r, res.value),
                                       !.status = FedAck(@, r, res.value),
                                       !.rcv[r].rtn = Append(@, deserialize(DbGet(fed.object[r], res.value))),
                                       !.rcv[r].i = @ + 1,
                                       !.rcv[r].pc = next]
    /\ UNCHANGED <<n, catalog, disk>>

\* Table.destroy lines 196-202 and _TableMetaManager.destroy_table
destroy_table(cat, id) == DbDelete(cat, MetaKey(id[1], id[2]))
DiskRemove(d, id) == [x \in (DOMAIN d) \ {id} |-> d[x]]

\* the receiver drops the j-th result of its get, a table handle with
\* need_cleanup=True: Table.__del__ destroys the table
get_destroy(r, j) ==
    /\ fed.rcv[r].pc = "done"
    /\ j \in DOMAIN fed.rcv[r].rtn
    /\ j \notin fed.rcv[r].destroyed
    /\ fed.rcv[r].rtn[j].type = "Table"
    /\ LET h == fed.rcv[r].rtn[j].value
           id == <<h.namespace, h.name>>
       IN /\ catalog' = destroy_table(catalog, id)
          /\ disk' = DiskRemove(disk, id)
    /\ fed' = [fed EXCEPT !.rcv[r].destroyed = @ \cup {j}]
    /\ UNCHANGED n

\* the payloads remote is called with
Payloads == {PyNone, PyTable(LoadTableHandle(catalog, SrcId, FALSE))} \cup Objects

InitFed ==
    /\ n \in 1..MaxPartitions
    /\ catalog = add_table_meta(EmptyDb, SrcId, SrcMeta)
    /\ \E src \in {m \in SrcDbs : DbEntries(m) = Min(2, MaxInput)}, max \in MaxMessageSizes :
        /\ disk = [x \in {SrcId} |-> Placed(src, "first_byte", n)]
        /\ fed = [max_message_size |-> max, source |-> Placed(src, "first_byte", n),
                  status |-> EmptyStatus, object |-> EmptyStatus,
                  snd |-> [s \in Senders |-> SenderIdle],
                  rcv |-> [r \in Receivers |-> ReceiverIdle],
                  uuid |-> 1]
    /\ pc = "fed"
    /\ cp = <<>>
    /\ job = <<>>
    /\ proc = <<>>
    /\ parts = <<>>
    /\ txn = NoTxn
    /\ call = NoCall
    /\ last = Idle
    /\ written = {}
    /\ MRUnused
    /\ bin = <<>>

FedFrame ==
    UNCHANGED <<parts, pc, txn, call, last, written, mr, task1, task2, interm, outp, bin, cp, job, proc>>

NextFed ==
    \/ \E s \in Senders, v \in Payloads : \E parties \in RemoteParties(s) :
           remote_call(s, v, parties) /\ FedFrame
    \/ \E s \in Senders : remote_put(s) /\ FedFrame
    \/ \E s \in Senders : remote_publish(s) /\ FedFrame
    \/ \E r \in Receivers : \E parties \in GetParties(r) : get_call(r, parties) /\ FedFrame
    \/ \E r \in Receivers : get_wait(r) /\ FedFrame
    \/ \E r \in Receivers : get_result(r) /\ FedFrame
    \/ \E r \in Receivers, j \in 1..2 : get_destroy(r, j) /\ FedFrame

SpecFed == InitFed /\ [][NextFed]_vars

\* Every party is a process of its own: a call that has been made goes on
\* (the calls themselves need not be made).
FairFed ==
    /\ \A s \in Senders : WF_vars((remote_put(s) \/ remote_publish(s)) /\ FedFrame)
    /\ \A r \in Receivers : WF_vars((get_wait(r) \/ get_result(r)) /\ FedFrame)

SpecFedFair == SpecFed /\ FairFed

-----------------------------------------------------------------------------
(* Claims about the federation (specifications SpecFed and SpecFedFair).   *)

FedKey(s, r) == federation_object_key(FedName, FedTag, s, r)

GetReturned(r) == fed.rcv[r].pc = "done"

RemoteEnded(s) == fed.snd[s].pc \in {"done", "raised"}

\* remote of party s was called for party r: r is in its parties list
SentTo(s, r) == \E k \in DOMAIN fed.snd[s].parties : fed.snd[s].parties[k] = r

\* remote of party s has written the status entry of party r
Published(s, r) ==
    \E k \in DOMAIN fed.snd[s].parties : fed.snd[s].parties[k] = r /\ fed.snd[s].i > k

\* the serialized length of the payload of party s
PayloadSize(s) == Len(serialize(fed.snd[s].v))

CeilDiv(a, b) == (a + b - 1) \div b

\* C15: after get returns, the status entry of every federation key it
\* received has been deleted from the receiver's status table, in all cases,
\* and for an inline object the object-table entry as well.
C15_StatusAcknowledged ==
    \A r \in Receivers :
        GetReturned(r) =>
            \A j \in DOMAIN fed.rcv[r].parties :
                /\ DbMisses(fed.status[r], FedKey(fed.rcv[r].parties[j], r))
                /\ DbMisses(fed.object[r], FedKey(fed.rcv[r].parties[j], r))

\* For an inline object both entries are deleted once get has returned.
InlineAcknowledged ==
    \A r \in Receivers :
        GetReturned(r) =>
            \A j \in DOMAIN fed.rcv[r].parties :
                fed.rcv[r].results[j].type = "str" =>
                    /\ DbMisses(fed.status[r], FedKey(fed.rcv[r].parties[j], r))
                    /\ DbMisses(fed.object[r], FedKey(fed.rcv[r].parties[j], r))

\* a get of party r is waiting and every party it names has called remote
\* for r with a payload
AllCalled(r) ==
    /\ fed.rcv[r].pc = "wait"
    /\ \A j \in DOMAIN fed.rcv[r].parties :
           LET s == fed.rcv[r].parties[j]
           IN fed.snd[s].pc # "idle" /\ fed.snd[s].v # PyNone /\ SentTo(s, r)

\* the result get returns for a party: the object sent, or a handle of the
\* copy made for the receiver
ResultOf(s, r, x) ==
    IF fed.snd[s].v.type = "Table"
    THEN /\ x.type = "Table"
         /\ \E k \in DOMAIN fed.snd[s].sent :
                fed.snd[s].parties[k] = r /\ fed.snd[s].sent[k] = <<x.value.namespace, x.value.name>>
    ELSE x = fed.snd[s].v

\* C16, its safety half: get returns only after every party it names has
\* published its status entry, with one result per party in the order of
\* parties.
GetReturnsAfterPublish ==
    \A r \in Receivers :
        GetReturned(r) =>
            /\ Len(fed.rcv[r].rtn) = Len(fed.rcv[r].parties)
            /\ \A j \in DOMAIN fed.rcv[r].parties :
                   /\ Published(fed.rcv[r].parties[j], r)
                   /\ ResultOf(fed.rcv[r].parties[j], r, fed.rcv[r].rtn[j])

\* C16: if every party get names calls remote for that name and tag, get
\* eventually returns (one result per party, in the order of parties).
C16_GetEventuallyReturns ==
    \A r \in Receivers : AllCalled(r) ~> GetReturned(r)

\* the same when no payload is larger than the max message size
GetEventuallyReturnsInline ==
    \A r \in Receivers :
        (AllCalled(r) /\ \A j \in DOMAIN fed.rcv[r].parties :
                             LET s == fed.rcv[r].parties[j]
                             IN fed.snd[s].v.type = "bytes" => PayloadSize(s) <= fed.max_message_size)
            ~> GetReturned(r)

\* C17: for any payload whose serialized length exceeds the max message
\* size, the object the receiver's get returns equals the object passed to
\* remote.
C17_SplitRoundTrip ==
    \A s \in Senders :
        (RemoteEnded(s) /\ fed.snd[s].v.type = "bytes" /\ PayloadSize(s) > fed.max_message_size) =>
            /\ fed.snd[s].pc = "done"
            /\ \A r \in Receivers :
                   GetReturned(r) =>
                       \A j \in DOMAIN fed.rcv[r].parties :
                           fed.rcv[r].parties[j] = s => fed.rcv[r].rtn[j] = fed.snd[s].v

\* the chunks of _get_splits, stored under their keys and joined in key
\* order, rebuild the object
SplitChunksRebuild ==
    \A obj \in Objects :
        LET sp == get_splits(obj, fed.max_message_size)
            table == [k \in {sp.kv[i][1] : i \in DOMAIN sp.kv} |->
                         LET i == CHOOSE x \in DOMAIN sp.kv : sp.kv[x][1] = k IN sp.kv[i][2]]
        IN sp.num_slice > 1 => deserialize(JoinValues(Cursor(table))) = obj

\* the chunk keys order the chunks by ascending chunk index
ChunkIndexes == {0, 1, 255, 256, 257, 512}
ChunkKeysAscending ==
    \A i \in ChunkIndexes, j \in ChunkIndexes :
        i < j => BytesLess(serialize_int(i), serialize_int(j))

\* C18: remote sends a non-table payload inline (dtype OBJECT) exactly when
\* its serialized length L is at most max_message_size; otherwise (dtype
\* SPLIT_OBJECT) it is split into ceil(L / max_message_size) chunks.
C18_InlineOrSplit ==
    \A s \in Senders :
        (RemoteEnded(s) /\ fed.snd[s].v.type = "bytes") =>
            IF PayloadSize(s) <= fed.max_message_size
            THEN fed.snd[s].dtype = "obj" /\ fed.snd[s].num_slice = 1
            ELSE /\ fed.snd[s].dtype = "split_obj"
                 /\ fed.snd[s].num_slice = CeilDiv(PayloadSize(s), fed.max_message_size)

\* _get_splits: one slice exactly when L <= max_message_size; otherwise
\* ceil(L / max_message_size) chunks of at most max_message_size bytes, all
\* but the last of exactly that size, whose concatenation is the serialized
\* bytes.
GetSplitsChunks ==
    \A obj \in Objects :
        LET sp == get_splits(obj, fed.max_message_size)
            L == Len(serialize(obj))
            max == fed.max_message_size
        IN /\ sp.num_slice <= 1 <=> L <= max
           /\ sp.num_slice = CeilDiv(L, max)
           /\ sp.num_slice > 1 =>
                  /\ Len(sp.kv) = sp.num_slice
                  /\ \A i \in DOMAIN sp.kv : Len(sp.kv[i][2]) <= max /\ Len(sp.kv[i][2]) >= 1
                  /\ \A i \in 1..(Len(sp.kv) - 1) : Len(sp.kv[i][2]) = max
                  /\ JoinValues(sp.kv) = serialize(obj)

\* C19: remote with a null payload fails with an invalid-argument error
\* before anything is written: no status entry, no object entry and no table
\* for any destination party.
C19_NullRejected ==
    \A s \in Senders :
        (fed.snd[s].pc # "idle" /\ fed.snd[s].v = PyNone) =>
            /\ fed.snd[s].pc = "raised"
            /\ fed.snd[s].error = "ValueError"
            /\ fed.snd[s].sent = <<>>
            /\ \A r \in Receivers :
                   DbMisses(fed.status[r], FedKey(s, r)) /\ DbMisses(fed.object[r], FedKey(s, r))

\* remote was called with a null payload for two parties, while the other
\* sender has published
C19_Witness ==
    /\ fed.snd[Guest].pc = "raised"
    /\ fed.snd[Guest].v = PyNone
    /\ Len(fed.snd[Guest].parties) = 2
    /\ fed.snd[Host].pc = "done"

\* the copies remote has made, over all senders
Copies == {<<s, k>> : s \in Senders, k \in 1..2}

CopyMade(c) == fed.snd[c[1]].v.type = "Table" /\ c[2] \in DOMAIN fed.snd[c[1]].sent

CopyId(c) == fed.snd[c[1]].sent[c[2]]

\* a receiver has destroyed the table
Destroyed(id) ==
    \E r \in Receivers : \E j \in fed.rcv[r].destroyed :
        <<fed.rcv[r].rtn[j].value.namespace, fed.rcv[r].rtn[j].value.name>> = id

\* C20: when remote sends a table to k parties, it makes k copies with
\* pairwise distinct fresh names in the table's namespace, each holding
\* exactly the source's key-value set, and publishes to each party a status
\* entry (copy_name, copy_namespace, TABLE) naming that party's own copy; the
\* source is unchanged, and a receiver destroying its copy changes neither
\* the source nor another party's copy.
C20_TableCopies ==
    /\ Stored(disk, SrcId) = fed.source
    /\ get_table_meta(catalog, SrcId) = SrcMeta
    /\ \A s \in Senders :
           (fed.snd[s].pc = "done" /\ fed.snd[s].v.type = "Table") =>
               Len(fed.snd[s].sent) = Len(fed.snd[s].parties)
    /\ \A c \in Copies :
           CopyMade(c) =>
               /\ CopyId(c)[1] = SrcId[1]
               /\ CopyId(c) # SrcId
               /\ \A o \in Copies \ {c} : CopyMade(o) => CopyId(o) # CopyId(c)
               /\ ~Destroyed(CopyId(c)) =>
                      /\ Stored(disk, CopyId(c)) = fed.source
                      /\ HasTableMeta(catalog, CopyId(c))
                      /\ get_table_meta(catalog, CopyId(c)) = SrcMeta
               /\ LET s == c[1]
                      r == fed.snd[s].parties[c[2]]
                      entry == PyTuple(<<CopyId(c)[2], CopyId(c)[1], "Table">>)
                  IN Published(s, r) =>
                         \/ ~DbMisses(fed.status[r], FedKey(s, r))
                                /\ DbGet(fed.status[r], FedKey(s, r)) = entry
                         \/ \E j \in DOMAIN fed.rcv[r].results : fed.rcv[r].results[j] = entry

\* a table was sent to two parties, one of them has destroyed its copy and
\* the other one's copy is there
C20_Witness ==
    /\ fed.snd[Guest].pc = "done"
    /\ fed.snd[Guest].v.type = "Table"
    /\ Len(fed.snd[Guest].parties) = 2
    /\ Destroyed(fed.snd[Guest].sent[1])
    /\ ~Destroyed(fed.snd[Guest].sent[2])
    /\ fed.source # EmptyTable(n)

\* the status values of the get of party r that it has not turned into
\* results yet
Pending(r) ==
    {fed.rcv[r].results[j] :
        j \in {x \in DOMAIN fed.rcv[r].results : x >= fed.rcv[r].i}}

\* C27: for an inline object remote writes the payload into the object table
\* of the destination before the status sentinel, so a receiver that has
\* observed the sentinel finds the payload: while a key sentinel waits to be
\* turned into a result the payload is in the object table, and get never
\* raises the missing-payload error.
C27_PayloadBeforeSentinel ==
    \A r \in Receivers :
        /\ fed.rcv[r].error # "EnvironmentError"
        /\ fed.rcv[r].pc = "collect" =>
               \A res \in Pending(r) :
                   res.type = "str" => ~DbMisses(fed.object[r], res.value)
        /\ \A s \in Senders :
               (fed.snd[s].dtype = "obj" /\ Published(s, r)) =>
                   \E k \in DOMAIN fed.snd[s].sent : fed.snd[s].sent[k] = FedKey(s, r)

\* a get has returned an inline object while its sender was still publishing
\* to another party
C27_Witness ==
    \E r \in Receivers, s \in Senders :
        /\ GetReturned(r)
        /\ fed.snd[s].pc \in {"put", "publish"}
        /\ \E j \in DOMAIN fed.rcv[r].parties :
               /\ fed.rcv[r].parties[j] = s
               /\ fed.rcv[r].results[j].type = "str"
               /\ fed.rcv[r].rtn[j] = fed.snd[s].v

-----------------------------------------------------------------------------
(* The catalog by itself (specification SpecMeta): metadata records are     *)
(* added, tables are created, loaded and destroyed, for identities whose    *)
(* names and namespaces may contain ".".                                    *)

\* namespace "b.c" with name "a", namespace "c" with name "a.b", and
\* namespace "c" with name "a"
DotA == <<<<"b", ".", "c">>, <<"a">>>>
DotB == <<<<"c">>, <<"a", ".", "b">>>>
PlainId == <<<<"c">>, <<"a">>>>
MetaIds == {DotA, DotB, PlainId}

\* metadata values: small ones, and one whose record starts with the bytes
\* K 0x01 . (num_partitions = 0x4B012E00)
MetaValues == {TableMeta(1, 0, 0, 0), TableMeta(2, 1, 2, 3), TableMeta(1258368512, 1, 2, 3)}

\* num_partitions of the legacy records: one pickled as BININT1, one as BININT2
LegacyValues == {1, 300}

\* _TableMetaManager.add_table_meta called for identity id
add_meta(id, m) ==
    /\ pc = "cat_idle"
    /\ cp' = Called("add_table_meta", id, <<m>>)
    /\ catalog' = add_table_meta(catalog, id, m)
    /\ UNCHANGED <<n, pc, disk>>

\* _load_table lines 818-820: table_meta is None
LoadRaises(cat, id) == ~HasTableMeta(cat, id)

\* Session.load -> _load_table
load(id) ==
    /\ pc = "cat_idle"
    /\ cp' = [Called("load", id, <<>>) EXCEPT
                !.result = IF LoadRaises(catalog, id) THEN Raised("RuntimeError")
                           ELSE Returned(LoadTableHandle(catalog, id, FALSE))]
    /\ UNCHANGED <<n, pc, catalog, disk>>

\* Table.destroy line 197: range(self._partitions) takes an int only
DestroyRaises(h) == h.partitions.type # "int"

\* Table.destroy lines 196-202 on the handle the last call returned: every
\* partition is opened and dropped, then the entry and the directory go
destroy ==
    /\ pc = "cat_idle"
    /\ cp.result.kind = "Table"
    /\ LET h == cp.result.handle
           id == <<h.namespace, h.name>>
       IN IF DestroyRaises(h)
          THEN /\ cp' = [Called("destroy", id, <<h>>) EXCEPT !.result = Raised("TypeError")]
               /\ UNCHANGED <<catalog, disk>>
          ELSE /\ cp' = Called("destroy", id, <<h>>)
               /\ catalog' = destroy_table(catalog, id)
               /\ disk' = DiskRemove(disk, id)
    /\ UNCHANGED <<n, pc>>

InitMeta ==
    /\ n = 1
    /\ pc = "cat_idle"
    /\ cp = NoCopy
    /\ \/ catalog = EmptyDb /\ disk = <<>>
       \/ \E v \in LegacyValues, db \in OldDbs :
            /\ catalog = DbPut(EmptyDb, MetaKey(PlainId[1], PlainId[2]), serialize_int(v))
            /\ disk = [x \in {PlainId} |-> Placed(db, "length", 1)]
    /\ parts = <<>>
    /\ txn = NoTxn
    /\ call = NoCall
    /\ last = Idle
    /\ written = {}
    /\ MRUnused
    /\ bin = <<>>
    /\ fed = <<>>
    /\ job = <<>>
    /\ proc = <<>>

NextMeta ==
    \/ \E id \in MetaIds, m \in MetaValues : add_meta(id, m) /\ CatFrame
    \/ \E id \in MetaIds, m \in MetaValues, e \in BOOLEAN : create_table(id, m, e) /\ CatFrame
    \/ \E id \in MetaIds : load(id) /\ CatFrame
    \/ destroy /\ CatFrame

SpecMeta == InitMeta /\ [][NextMeta]_vars

-----------------------------------------------------------------------------
(* Claims about the catalog by itself (specification SpecMeta).            *)

\* the last call was op and it did not raise
Done(op) == cp.op = op /\ cp.result.kind # "raised"

\* identity id holds the legacy record of num_partitions v
LegacyRecord(id, v) ==
    HasTableMeta(catalog, id) /\ catalog[MetaKey(id[1], id[2])] = serialize_int(v)

\* C26: table metadata round-trips: what get_table_meta decodes from the
\* 16-byte record add_table_meta wrote for m equals m in all four fields, for
\* every m; and a legacy record of num_partitions decodes to that
\* num_partitions with zeros for the three type tags.
C26_MetaRoundTrip ==
    /\ Done("add_table_meta") => get_table_meta(catalog, cp.dst) = cp.args[1]
    /\ \A id \in MetaIds, v \in LegacyValues :
           LegacyRecord(id, v) => get_table_meta(catalog, id) = TableMeta(v, 0, 0, 0)

\* The round trip of the records that do not start like a pickled int, and of
\* the legacy records.
MetaRoundTripUnpickled ==
    /\ (Done("add_table_meta") /\ ~IsPickledInt(TableMetaSerialize(cp.args[1]))) =>
           get_table_meta(catalog, cp.dst) = cp.args[1]
    /\ \A id \in MetaIds, v \in LegacyValues :
           LegacyRecord(id, v) => get_table_meta(catalog, id) = TableMeta(v, 0, 0, 0)

\* what get_table_meta returns for identity id: None, or the metadata
Lookup(cat, id) == IF HasTableMeta(cat, id) THEN <<get_table_meta(cat, id)>> ELSE <<>>

\* C25: Session.load of an identity without a catalog entry fails with the
\* not-found error, and Table.destroy removes the catalog entry and the
\* directory of the table, so that a load after it fails until the table is
\* created again.
C25_LoadAndDestroy ==
    /\ cp.op = "load" =>
           IF cp.existed THEN cp.result.kind = "Table" ELSE cp.result = Raised("RuntimeError")
    /\ cp.op = "destroy" =>
           /\ ~HasTableMeta(catalog, cp.dst)
           /\ cp.dst \notin DOMAIN disk

\* The same for a destroy that ran: through a handle whose partitions is an int.
LoadAndDestroyInt ==
    /\ cp.op = "load" =>
           IF cp.existed THEN cp.result.kind = "Table" ELSE cp.result = Raised("RuntimeError")
    /\ Done("destroy") =>
           /\ ~HasTableMeta(catalog, cp.dst)
           /\ cp.dst \notin DOMAIN disk

\* C30: catalog entries of distinct identities are independent: a call that
\* creates, adds metadata for or destroys one identity leaves what
\* get_table_meta returns for every other identity as it was, also for names
\* and namespaces that contain ".".
C30_CatalogIndependent ==
    [][\A id \in MetaIds :
           id # cp'.dst => Lookup(catalog', id) = Lookup(catalog, id)]_vars

\* The independence of the identities whose catalog keys differ.
CatalogKeysIndependent ==
    [][\A id \in MetaIds :
           MetaKey(id[1], id[2]) # MetaKey(cp'.dst[1], cp'.dst[2]) =>
               Lookup(catalog', id) = Lookup(catalog, id)]_vars

-----------------------------------------------------------------------------
(* One multi-partition call of a session whose user code may raise          *)
(* (specification SpecJob): reduce, join, union, subtract_by_key, or        *)
(* map_reduce_partitions_with_index with shuffle=True and no reducer.  The  *)
(* driver submits one task per partition and takes their results in the     *)
(* order of submission; then the session is stopped and the handle the     *)
(* call returned is dropped.  The tables live in the data directory.       *)

JobOps == {"reduce", "join", "union", "subtract_by_key", "map_reduce"}

\* the user code of a call: a reducer, a merge_op or a mapper.  "raising"
\* adds its arguments and raises when the second one is 1; as a mapper it is
\* the identity and raises at a value 1.
JobFuncs(op) ==
    CASE op = "reduce"          -> {"add", "max", "raising"}
      [] op = "join"            -> {"add", "raising"}
      [] op = "union"           -> {"add", "raising"}
      [] op = "subtract_by_key" -> {"add"}
      [] op = "map_reduce"      -> {"identity", "one_key", "raising"}

FuncRaises(F, a, b) == F = "raising" /\ b = 1

MapRaises(M, items) == M = "raising" /\ \E i \in 1..Len(items) : items[i][2] = 1

\* an exception: its type, the operation its message names and the raw
\* payloads its message carries
Exception(type, op, payloads) == [type |-> type, op |-> op, payloads |-> payloads]

\* what user code raises
UserError == Exception("UserError", "none", <<>>)

IsException(x) == x.type \in {"UserError", "RuntimeError"}

\* rtn of a map-reduce or a binary task: the output info or operand
TaskInfo == [type |-> "info", value |-> 0]

\* the output of the call: output_name is None, so str(uuid.uuid1()) under
\* the session's namespace
OutId == <<SessionId, Uuid1(1)>>

\* _do_reduce lines 1126-1135: the left fold over the cursor of one partition
RECURSIVE DoReduceLoop(_, _, _, _)
DoReduceLoop(value, items, i, F) ==
    IF i > Len(items) THEN value
    ELSE IF value = PyNone THEN DoReduceLoop(PyInt(items[i][2]), items, i + 1, F)
    ELSE IF FuncRaises(F, value.value, items[i][2]) THEN UserError
    ELSE DoReduceLoop(PyInt(ReduceOp(F, value.value, items[i][2])), items, i + 1, F)

do_reduce(db, F) == DoReduceLoop(PyNone, Cursor(db), 1, F)

DriverFoldMutant(rtn, rs, i, F) == rtn

\* Session.submit_reduce lines 604-607: rtn = func(rtn, r) for r in rs[1:]
RECURSIVE DriverFold(_, _, _, _)
DriverFold(rtn, rs, i, F) ==
    IF i > Len(rs) THEN rtn
    ELSE IF FuncRaises(F, rtn.value, rs[i].value) THEN UserError
    ELSE DriverFold(PyInt(ReduceOp(F, rtn.value, rs[i].value)), rs, i + 1, F)

\* Session.submit_reduce lines 600-607 on the results of the tasks
submit_reduce(results, F) ==
    LET NotNone(r) == r # PyNone
        rs == SelectSeq(results, NotNone)
    IN IF Len(rs) <= 0 THEN PyNone ELSE DriverFold(rs[1], rs, 2, F)

\* the items of the left cursor at which merge_op is called and raises
MergeRaisesAt(lcur, rdb, F) ==
    {i \in 1..Len(lcur) :
        ~DbMisses(rdb, lcur[i][1]) /\ FuncRaises(F, lcur[i][2], DbGet(rdb, lcur[i][1]))}

\* _do_join lines 1175-1180: the exception of merge_op is wrapped in a
\* RuntimeError "Error when joining" with both values
JoinError(l, r) == Exception("RuntimeError", "join", <<l, r>>)

\* _do_union line 1203: the exception of merge_op leaves the task as it is
UnionError(l, r) == UserError

ShuffleOutputMutant(P, k, np) == 0

\* _do_mrwi_shuffle_no_reduce line 1069: p.get_output_partition_id(k_bytes)
ShuffleOutput(P, k, np) == Partitioner(P, k, np)

\* _do_mrwi_shuffle_no_reduce lines 1068-1070: every emitted pair is put
RECURSIVE ShuffleNoReduceLoop(_, _, _, _, _)
ShuffleNoReduceLoop(txns, emitted, i, P, np) ==
    IF i > Len(emitted) THEN txns
    ELSE LET k == emitted[i][1]
         IN ShuffleNoReduceLoop([txns EXCEPT ![ShuffleOutput(P, k, np)] = DbPut(@, k, emitted[i][2])],
                                emitted, i + 1, P, np)

\* _open_env line 1020 on partition p of table id: a missing directory is made
Touch(d, id, p) == DiskWrite(d, id, p, PartitionDb(d, id, p))

RECURSIVE TouchAll(_, _, _)
TouchAll(d, id, np) == IF np = 0 THEN d ELSE TouchAll(Touch(d, id, np - 1), id, np - 1)

\* the first item of a cursor at which merge_op raises
FirstOf(S) == CHOOSE i \in S : \A j \in S : i <= j

\* what the future of the task of partition p holds once the task has run on
\* the data directory d: its return value or its exception
TaskOutcome(d, p) ==
    LET ldb == PartitionDb(d, SrcId, p)
        rdb == PartitionDb(d, OldId, p)
        lcur == Cursor(ldb)
        at == MergeRaisesAt(lcur, rdb, job.func)
    IN CASE job.op = "reduce" -> do_reduce(ldb, job.func)
         [] job.op = "join" ->
                IF at = {} THEN TaskInfo
                ELSE JoinError(lcur[FirstOf(at)][2], DbGet(rdb, lcur[FirstOf(at)][1]))
         [] job.op = "union" ->
                IF at = {} THEN TaskInfo
                ELSE UnionError(lcur[FirstOf(at)][2], DbGet(rdb, lcur[FirstOf(at)][1]))
         [] job.op = "subtract_by_key" -> TaskInfo
         [] job.op = "map_reduce" -> IF MapRaises(job.func, lcur) THEN UserError ELSE TaskInfo

\* the data directory once the task of partition p has run: the environments
\* it opens exist, and what it wrote is committed unless it raised
TaskDisk(d, p) ==
    LET ldb == PartitionDb(d, SrcId, p)
        rdb == PartitionDb(d, OldId, p)
        ok == ~IsException(TaskOutcome(d, p))
    IN CASE job.op = "reduce" -> Touch(d, SrcId, p)
         [] job.op \in BinaryOps ->
                LET o == Touch(Touch(Touch(d, OldId, p), SrcId, p), OutId, p)
                IN IF ok
                   THEN DiskWrite(o, OutId, p,
                                  DoFunc(job.op, PartitionDb(d, OutId, p), ldb, rdb, job.func))
                   ELSE o
         [] job.op = "map_reduce" ->
                LET o == TouchAll(Touch(d, SrcId, p), OutId, n)
                    w == ShuffleNoReduceLoop([q \in PartIds(n) |-> PartitionDb(d, OutId, q)],
                                             MapOp(job.func, Cursor(ldb)), 1, job.partitioner, n)
                IN IF ok THEN [o EXCEPT ![OutId] = w] ELSE o

\* the driver submits one task per partition
job_submit ==
    /\ pc = "job_start"
    /\ pc' = "job_wait"
    /\ job' = [job EXCEPT !.tasks = [p \in PartIds(n) |-> "queued"]]
    /\ UNCHANGED <<n, catalog, disk>>

JobRunning == Cardinality({p \in DOMAIN job.tasks : job.tasks[p] = "running"})

job_task_start(p) ==
    /\ job.tasks[p] = "queued"
    /\ JobRunning < MaxWorkers
    /\ job' = [job EXCEPT !.tasks[p] = "running"]
    /\ UNCHANGED <<n, pc, catalog, disk>>

\* the task body runs: the ExitStack commits its write transactions, or
\* aborts them when the body raised
job_task_finish(p) ==
    /\ job.tasks[p] = "running"
    /\ job' = [job EXCEPT !.tasks[p] = IF IsException(TaskOutcome(disk, p)) THEN "raised" ELSE "done",
                          !.outcome[p] = TaskOutcome(disk, p),
                          !.late = @ \/ pc = "stopping"]
    /\ disk' = TaskDisk(disk, p)
    /\ UNCHANGED <<n, pc, catalog>>

FutureReadyMutant(tasks, i) == TRUE

\* r.result() of the i-th future returns or raises once its task has ended
FutureReady(tasks, i) == tasks[i] \in {"done", "raised"}

\* lines 600, 641 and 656-658: the driver takes the result of the next future
job_gather ==
    /\ pc = "job_wait"
    /\ job.i < n
    /\ FutureReady(job.tasks, job.i)
    /\ IF job.tasks[job.i] = "raised"
       THEN /\ pc' = "job_failed"
            /\ job' = [job EXCEPT !.status = "raised", !.result = job.outcome[job.i]]
       ELSE /\ job' = [job EXCEPT !.i = @ + 1]
            /\ UNCHANGED pc
    /\ UNCHANGED <<n, catalog, disk>>

\* every result is in: submit_reduce folds them (lines 601-607), the other
\* calls wrap the output by _create_table
job_return ==
    /\ pc = "job_wait"
    /\ job.i = n
    /\ IF job.op = "reduce"
       THEN LET r == submit_reduce([i \in 1..n |-> job.outcome[i - 1]], job.func)
            IN /\ job' = [job EXCEPT !.status = IF IsException(r) THEN "raised" ELSE "returned",
                                     !.result = r]
               /\ pc' = IF IsException(r) THEN "job_failed" ELSE "job_done"
               /\ UNCHANGED catalog
       ELSE LET m == TableMeta(n, SrcHandle.key_serdes_type, SrcHandle.value_serdes_type,
                               SrcHandle.partitioner_type)
            IN /\ catalog' = CreateTableCatalog(catalog, OutId, m)
               /\ job' = [job EXCEPT !.status = "returned",
                                     !.result = PyTable(CreateTableHandle(catalog, OutId, m, TRUE))]
               /\ pc' = "job_done"
    /\ UNCHANGED <<n, disk>>

CleanupMutant(d, namespace) == d

\* Session.cleanup lines 566-578 with name "*": the directory of the
\* namespace is removed with everything under it
cleanup(d, namespace) == [x \in {y \in DOMAIN d : y[1] # namespace} |-> d[x]]

\* Session.stop line 584
stop_cleanup ==
    /\ pc \in {"job_done", "job_failed"}
    /\ pc' = "stopping"
    /\ disk' = cleanup(disk, SessionId)
    /\ UNCHANGED <<n, catalog, job>>

\* Session.stop line 585: self._pool.shutdown() returns when every submitted
\* task has run
stop_shutdown ==
    /\ pc = "stopping"
    /\ \A p \in PartIds(n) : job.tasks[p] \in {"done", "raised"}
    /\ pc' = "stopped"
    /\ UNCHANGED <<n, catalog, disk, job>>

\* Table.__del__ lines 183-188 of the handle the call returned, after the
\* stop: destroy, with whatever it raises swallowed
drop_handle ==
    /\ pc = "stopped"
    /\ job.status = "returned"
    /\ job.result.type = "Table"
    /\ ~job.dropped
    /\ LET h == job.result.value
           id == <<h.namespace, h.name>>
       IN IF h.need_cleanup /\ ~DestroyRaises(h)
          THEN /\ catalog' = destroy_table(catalog, id)
               /\ disk' = DiskRemove(TouchAll(disk, id, h.partitions.value), id)
          ELSE UNCHANGED <<catalog, disk>>
    /\ job' = [job EXCEPT !.dropped = TRUE]
    /\ UNCHANGED <<n, pc>>

InitJob ==
    /\ n \in 1..MaxPartitions
    /\ proc = <<>>
    /\ pc = "job_start"
    /\ \E op \in JobOps, l \in SmallDbs, r \in SrcDbs, P \in OutputPartitioners :
         \E F \in JobFuncs(op) :
           /\ op \notin BinaryOps => r = EmptyDb
           /\ op # "map_reduce" => P = "first_byte"
           /\ job = [op |-> op, func |-> F, partitioner |-> P,
                     tasks |-> [p \in PartIds(n) |-> "none"],
                     outcome |-> [p \in PartIds(n) |-> PyNone],
                     i |-> 0, status |-> "none", result |-> PyNone,
                     late |-> FALSE, dropped |-> FALSE]
           /\ disk = [x \in {SrcId, OldId} |->
                         IF x = SrcId THEN Placed(l, "first_byte", n)
                         ELSE Placed(r, "first_byte", n)]
    /\ catalog = add_table_meta(add_table_meta(EmptyDb, SrcId, SrcMeta), OldId, SrcMeta)
    /\ cp = <<>>
    /\ parts = <<>>
    /\ txn = NoTxn
    /\ call = NoCall
    /\ last = Idle
    /\ written = {}
    /\ MRUnused
    /\ bin = <<>>
    /\ fed = <<>>

JobFrame ==
    UNCHANGED <<parts, txn, call, last, written, mr, task1, task2, interm, outp, bin, cp, fed, proc>>

NextJob ==
    \/ job_submit /\ JobFrame
    \/ \E p \in PartIds(n) : job_task_start(p) /\ JobFrame
    \/ \E p \in PartIds(n) : job_task_finish(p) /\ JobFrame
    \/ job_gather /\ JobFrame
    \/ job_return /\ JobFrame
    \/ stop_cleanup /\ JobFrame
    \/ stop_shutdown /\ JobFrame
    \/ drop_handle /\ JobFrame

SpecJob == InitJob /\ [][NextJob]_vars

-----------------------------------------------------------------------------
(* Claims about one multi-partition call and the stop of the session       *)
(* (specification SpecJob).                                                *)

\* the directories of tables under the session's namespace
SessionDirs == {id \in DOMAIN disk : id[1] = SessionId}

\* C21: after Session.stop has returned no directory remains under the
\* session's namespace, whatever the session created before, also after the
\* owning handles of the session are dropped following the stop.
C21_StopRemovesAll == pc = "stopped" => SessionDirs = {}

\* The same when no task of the call ran after the cleanup of the stop.
StopRemovesAllQuiet == (pc = "stopped" /\ ~job.late) => SessionDirs = {}

\* the call failed on the result of a task
TaskFailed == job.status = "raised" /\ job.i < n

\* C23: when tasks of a multi-partition call fail, the call fails with the
\* exception of the first failing partition in ascending partition index,
\* whatever the other tasks did, and it produces no output handle, catalog
\* entry or reduction value; a call that returns has seen every task succeed.
C23_FirstFailure ==
    /\ TaskFailed =>
           /\ job.tasks[job.i] = "raised"
           /\ \A p \in PartIds(n) : p < job.i => job.tasks[p] = "done"
           /\ job.result = job.outcome[job.i]
           /\ IsException(job.result)
           /\ ~HasTableMeta(catalog, OutId)
    /\ job.status = "returned" =>
           \A p \in PartIds(n) : job.tasks[p] = "done" /\ ~IsException(job.outcome[p])

\* the call failed with the exception of partition 0 while a later partition
\* had failed with another one
C23_Witness ==
    /\ TaskFailed
    /\ job.i = 0
    /\ \E p \in PartIds(n) :
           p > 0 /\ job.tasks[p] = "raised" /\ job.outcome[p] # job.outcome[0]

\* the input table and the output table of the call
JobSource == [p \in PartIds(n) |-> PartitionDb(disk, SrcId, p)]
JobOutput == [p \in PartIds(n) |-> PartitionDb(disk, OutId, p)]

\* the values of all entries of the input table
JobValues == LET c == collect(JobSource, n) IN [i \in 1..Len(c) |-> c[i][2]]

\* C24: reduce(f) with an associative and commutative f returns the fold of
\* f over the values of all entries of all partitions, each used once, and a
\* null result on a table with no entries.
C24_ReduceFold ==
    (pc = "job_done" /\ job.op = "reduce" /\ job.func \in AssociativeCommutative) =>
        job.result = IF count(JobSource, n) = 0 THEN PyNone
                     ELSE PyInt(Reduction(job.func, JobValues))

\* a sum over the entries of two partitions
C24_Witness ==
    /\ pc = "job_done"
    /\ job.op = "reduce"
    /\ job.func = "add"
    /\ job.result = PyInt(2)
    /\ \E p \in PartIds(n), q \in PartIds(n) :
           p # q /\ JobSource[p] # EmptyDb /\ JobSource[q] # EmptyDb

\* the pairs (left value, right value) of a common key at which merge_op raises
RaisingPairs ==
    {<<LET p == CHOOSE q \in PartIds(n) : k \in DOMAIN JobSource[q] IN JobSource[p][k],
       LET p == CHOOSE q \in PartIds(n) : k \in DOMAIN PartitionDb(disk, OldId, q)
       IN PartitionDb(disk, OldId, p)[k]>> :
        k \in {x \in Keys : /\ \E q \in PartIds(n) : x \in DOMAIN JobSource[q]
                            /\ \E q \in PartIds(n) : x \in DOMAIN PartitionDb(disk, OldId, q)}}

\* C28: in join and in union, when merge_op raises on a pair of values the
\* error that reaches the driver names the operation and carries both raw
\* payloads, and the whole call fails.
C28_MergeErrorPayloads ==
    (pc = "job_failed" /\ TaskFailed /\ job.op \in {"join", "union"}) =>
        /\ job.result.op = job.op
        /\ job.result.payloads \in RaisingPairs

\* The same for join alone.
JoinErrorPayloads ==
    (pc = "job_failed" /\ TaskFailed /\ job.op = "join") =>
        /\ job.result.op = job.op
        /\ job.result.payloads \in RaisingPairs

\* the pairs map_op emits on input partition p
JobEmitted(p) == MapOp(job.func, Cursor(JobSource[p]))

JobEmittedPairs == UNION {{JobEmitted(p)[i] : i \in 1..Len(JobEmitted(p))} : p \in PartIds(n)}

\* the call has returned the table of a shuffle without a reducer
ShuffleReturned == pc = "job_done" /\ job.op = "map_reduce"

\* the output has the input's number of partitions and holds the emitted keys
ShuffleShape ==
    /\ TableKeys(JobOutput, n) = {pr[1] : pr \in JobEmittedPairs}
    /\ job.result.value.partitions = PyInt(n)
    /\ DOMAIN disk[OutId] = PartIds(n)

SweptTables == {id \in {SrcId, OldId, OutId} : HasTableMeta(catalog, id)}

\* C34: Session.cleanup, and hence Session.stop, removes table directories
\* only and leaves every catalog entry as it was: after it get_table_meta of
\* a swept table still returns the table's metadata and Session.load of the
\* table succeeds, with a handle whose partitions are empty.
C34_CleanupKeepsCatalog ==
    pc \in {"stopping", "stopped"} =>
        /\ \A id \in {SrcId, OldId} :
               HasTableMeta(catalog, id) /\ get_table_meta(catalog, id) = SrcMeta
        /\ (job.status = "returned" /\ job.result.type = "Table" /\ ~job.dropped) =>
               HasTableMeta(catalog, OutId)
        /\ \A id \in SweptTables :
               /\ ~LoadRaises(catalog, id)
               /\ LET h == LoadTableHandle(catalog, id, FALSE)
                  IN /\ h.partitions = PyInt(n)
                     /\ \A p \in PartIds(h.partitions.value) : PartitionDb(disk, id, p) = EmptyDb

\* the session was stopped after a reduce that had found entries in the
\* table, and the output of an earlier call is in the catalog too
C34_Witness ==
    /\ pc = "stopped"
    /\ job.op = "reduce"
    /\ job.status = "returned"
    /\ job.result = PyInt(2)
    /\ SweptTables = {SrcId, OldId}

-----------------------------------------------------------------------------
(* Messages of one federation session (specification SpecMsg): inline      *)
(* objects sent under several (name, tag, source, destination) tuples,     *)
(* some of them with "-" in the name or the tag.                           *)

Message(name, tag, src, dst) == [name |-> name, tag |-> tag, src |-> src, dst |-> dst]

DashA == Message(<<"x", "-", "y">>, <<"0">>, Guest, Arbiter)
DashB == Message(<<"x">>, <<"y", "-", "0">>, Guest, Arbiter)
PlainMsg == Message(<<"x">>, <<"0">>, Guest, Arbiter)
HostMsg == Message(<<"x">>, <<"0">>, Host, Arbiter)
Messages == {DashA, DashB, PlainMsg, HostMsg}

\* Federation.remote line 730 / Federation.get line 750: _tagged_key
MsgKey(t) == federation_object_key(t.name, t.tag, t.src, t.dst)

NoMessage == Message(<<>>, <<>>, Guest, Arbiter)

\* the object every tuple is sent with
MsgPayload(t) ==
    CASE t = DashA -> PyBytes(<<>>)
      [] t = DashB -> PyBytes(<<7>>)
      [] t = PlainMsg -> PyBytes(<<7, 8>>)
      [] OTHER -> PyBytes(<<8>>)

\* Federation.remote lines 729-740 with an object below the message size:
\* set_object for the one party of the call
msg_remote(s, t) ==
    /\ fed.snd[s].pc = "idle"
    /\ t.src = s
    /\ fed' = [fed EXCEPT !.object = set_object(@, t.dst, MsgKey(t), serialize(MsgPayload(t))),
                          !.snd[s] = [pc |-> "publish", t |-> t],
                          !.acting = t]

\* Federation.remote line 741: set_status(party, _tagged_key, _tagged_key)
msg_publish(s) ==
    /\ fed.snd[s].pc = "publish"
    /\ LET t == fed.snd[s].t
       IN fed' = [fed EXCEPT !.status = FedSet(@, t.dst, MsgKey(t), PyStr(MsgKey(t))),
                             !.snd[s].pc = "idle",
                             !.acting = t]

\* Federation.get lines 749-751: wait_status_set finds the status entry
msg_get(r, t) ==
    /\ fed.rcv[r].pc \in {"idle", "done", "raised"}
    /\ t.dst = r
    /\ ~DbMisses(fed.status[r], MsgKey(t))
    /\ fed' = [fed EXCEPT !.rcv[r] = [pc |-> "collect", t |-> t,
                                      res |-> DbGet(fed.status[r], MsgKey(t)), rtn |-> PyNone],
                          !.acting = t]

\* Federation.get lines 772-778: get_object, ack_object, ack_status
msg_collect(r) ==
    /\ fed.rcv[r].pc = "collect"
    /\ LET c == fed.rcv[r]
       IN IF DbMisses(fed.object[r], c.res.value)
          THEN fed' = [fed EXCEPT !.rcv[r].pc = "raised", !.acting = c.t]
          ELSE fed' = [fed EXCEPT !.object = FedAck(@, r, c.res.value),
                                  !.status = FedAck(@, r, c.res.value),
                                  !.rcv[r].rtn = deserialize(DbGet(fed.object[r], c.res.value)),
                                  !.rcv[r].pc = "done",
                                  !.acting = c.t]

InitMsg ==
    /\ n = 1
    /\ pc = "msg"
    /\ fed = [status |-> EmptyStatus, object |-> EmptyStatus,
              snd |-> [s \in Senders |-> [pc |-> "idle", t |-> NoMessage]],
              rcv |-> [r \in Receivers |-> [pc |-> "idle", t |-> NoMessage,
                                            res |-> PyNone, rtn |-> PyNone]],
              acting |-> NoMessage]
    /\ catalog = <<>>
    /\ disk = <<>>
    /\ cp = <<>>
    /\ job = <<>>
    /\ proc = <<>>
    /\ parts = <<>>
    /\ txn = NoTxn
    /\ call = NoCall
    /\ last = Idle
    /\ written = {}
    /\ MRUnused
    /\ bin = <<>>

MsgFrame ==
    UNCHANGED <<n, parts, pc, txn, call, last, written, mr, task1, task2, interm, outp, bin,
                catalog, disk, cp, job, proc>>

NextMsg ==
    \/ \E s \in Senders, t \in Messages : msg_remote(s, t) /\ MsgFrame
    \/ \E s \in Senders : msg_publish(s) /\ MsgFrame
    \/ \E r \in Receivers, t \in Messages : msg_get(r, t) /\ MsgFrame
    \/ \E r \in Receivers : msg_collect(r) /\ MsgFrame

SpecMsg == InitMsg /\ [][NextMsg]_vars

-----------------------------------------------------------------------------
(* Claims about the messages of one session (specification SpecMsg).       *)

\* what the tables of the destination hold for the tuple t
MsgEntry(f, t) ==
    <<IF DbMisses(f.status[t.dst], MsgKey(t)) THEN <<>> ELSE <<DbGet(f.status[t.dst], MsgKey(t))>>,
      IF DbMisses(f.object[t.dst], MsgKey(t)) THEN <<>> ELSE <<DbGet(f.object[t.dst], MsgKey(t))>>>>

\* C31: messages with distinct (name, tag, source, destination) tuples are
\* independent: a remote or a get for one tuple leaves the entries of every
\* other tuple as they were, and a get returns the object that was published
\* for its own tuple, also for names and tags that contain "-".
C31_MessagesIndependent ==
    [][/\ \A u \in Messages : u # fed'.acting => MsgEntry(fed', u) = MsgEntry(fed, u)
       /\ \A r \in Receivers :
              fed'.rcv[r].pc = "done" => fed'.rcv[r].rtn = MsgPayload(fed'.rcv[r].t)]_vars

\* The independence of the tuples whose keys differ: the entries of a tuple
\* with another key stay, and a get returns an object published under its key.
MessageKeysIndependent ==
    [][/\ \A u \in Messages :
              MsgKey(u) # MsgKey(fed'.acting) => MsgEntry(fed', u) = MsgEntry(fed, u)
       /\ \A r \in Receivers :
              fed'.rcv[r].pc = "done" =>
                  \E u \in Messages : /\ MsgKey(u) = MsgKey(fed'.rcv[r].t)
                                      /\ fed'.rcv[r].rtn = MsgPayload(u)]_vars

-----------------------------------------------------------------------------
(* Tasks that hold the write transactions of several partitions of one     *)
(* table (specification SpecLock): the shuffle-without-reduce task of      *)
(* every input partition, run by the worker pool, and one put_all run by   *)
(* another process.  An LMDB environment has one writer at a time:         *)
(* env.begin(write=True) blocks while another process holds the write      *)
(* transaction of the partition.  What the tasks write is in SpecJob.      *)

PutAllTask == <<"put_all", 0>>
MapTask(p) == <<"map", p>>

\* the tasks on a table of n partitions
LockTasks == {MapTask(p) : p \in PartIds(n)} \cup {PutAllTask}

AllLockTasks == {MapTask(p) : p \in 0..(MaxPartitions - 1)} \cup {PutAllTask}

NoOwner == <<"none", 0>>

AcquireIndexMutant(t, k) == IF t = PutAllTask THEN n - 1 - k ELSE k

\* lines 1064-1065 and 466: for p in range(partitions), the partition whose
\* write transaction is begun k-th (from 0)
AcquireIndex(t, k) == k

\* tasks of the pool that occupy a worker
LockRunning == Cardinality({t \in LockTasks : t # PutAllTask /\ proc.st[t] = "running"})

\* a worker of the pool takes the task; put_all runs in its caller's process
lock_start(t) ==
    /\ t \in LockTasks
    /\ proc.st[t] = "queued"
    /\ t # PutAllTask => LockRunning < MaxWorkers
    /\ proc' = [proc EXCEPT !.st[t] = "running"]

\* get_output_transaction line 989 / put_all line 468: env.begin(write=True)
\* returns once no other process holds the write transaction
lock_begin(t) ==
    /\ t \in LockTasks
    /\ proc.st[t] = "running"
    /\ proc.held[t] < n
    /\ LET p == AcquireIndex(t, proc.held[t])
       IN /\ proc.owner[p] = NoOwner
          /\ proc' = [proc EXCEPT !.owner[p] = t, !.held[t] = @ + 1]

\* env.begin(write=True) finds the write transaction taken and blocks
lock_wait(t) ==
    /\ t \in LockTasks
    /\ proc.st[t] = "running"
    /\ proc.held[t] < n
    /\ proc.owner[AcquireIndex(t, proc.held[t])] # NoOwner
    /\ t \notin proc.waited
    /\ proc' = [proc EXCEPT !.waited = @ \cup {t}]

\* lines 1067-1071 / 469-481: the pairs are put, then the ExitStack ends every
\* transaction, committed (ok) or aborted after an exception
lock_finish(t, ok) ==
    /\ t \in LockTasks
    /\ proc.st[t] = "running"
    /\ proc.held[t] = n
    /\ proc' = [proc EXCEPT !.st[t] = IF ok THEN "done" ELSE "raised",
                            !.held[t] = 0,
                            !.owner = [p \in PartIds(n) |-> IF @[p] = t THEN NoOwner ELSE @[p]]]

InitLock ==
    /\ n \in 1..MaxPartitions
    /\ pc = "lock"
    /\ proc = [st |-> [t \in LockTasks |-> "queued"],
               held |-> [t \in LockTasks |-> 0],
               owner |-> [p \in PartIds(n) |-> NoOwner],
               waited |-> {}]
    /\ catalog = <<>>
    /\ disk = <<>>
    /\ cp = <<>>
    /\ fed = <<>>
    /\ job = <<>>
    /\ parts = <<>>
    /\ txn = NoTxn
    /\ call = NoCall
    /\ last = Idle
    /\ written = {}
    /\ MRUnused
    /\ bin = <<>>

ProcFrame ==
    UNCHANGED <<n, parts, pc, txn, call, last, written, mr, task1, task2, interm, outp, bin,
                cp, fed, job>>

LockFrame == ProcFrame /\ UNCHANGED <<catalog, disk>>

NextLock ==
    \/ \E t \in AllLockTasks : lock_start(t) /\ LockFrame
    \/ \E t \in AllLockTasks : lock_begin(t) /\ LockFrame
    \/ \E t \in AllLockTasks : lock_wait(t) /\ LockFrame
    \/ \E t \in AllLockTasks, ok \in BOOLEAN : lock_finish(t, ok) /\ LockFrame

\* every process runs on: a started task goes on when it is not blocked, and
\* the pool starts a queued task when a worker is free
FairLock ==
    \A t \in AllLockTasks :
        WF_vars((lock_start(t) \/ lock_begin(t) \/ \E ok \in BOOLEAN : lock_finish(t, ok)) /\ LockFrame)

SpecLock == InitLock /\ [][NextLock]_vars /\ FairLock

-----------------------------------------------------------------------------
(* Claims about the multi-partition write transactions (specification      *)
(* SpecLock).                                                              *)

LockEnded(t) == proc.st[t] \in {"done", "raised"}

\* a running task holds the write transactions of the partitions below the
\* one it begins next, and an ended task holds none
LockOrder ==
    \A t \in LockTasks :
        {p \in PartIds(n) : proc.owner[p] = t} =
            IF proc.st[t] = "running" THEN {p \in PartIds(n) : p < proc.held[t]} ELSE {}

\* C33: the tasks that write to several partitions of one table begin the
\* partitions' write transactions in ascending partition index and hold them
\* until the task ends, so the tasks running concurrently do not deadlock and
\* every one of them eventually completes.
C33_NoDeadlock == [](LockOrder) /\ <>(\A t \in LockTasks : LockEnded(t))

\* every task has ended on a table of several partitions, after one of them
\* had found the write transaction of a partition taken
C33_Witness ==
    /\ n >= 2
    /\ \A t \in LockTasks : LockEnded(t)
    /\ \E t \in LockTasks : t # PutAllTask /\ t \in proc.waited
    /\ PutAllTask \in proc.waited

-----------------------------------------------------------------------------
(* Two processes that create tables (specification SpecRace): each calls   *)
(* _create_table once; get_table_meta runs in a read transaction and       *)
(* add_table_meta in a write transaction of its own.                       *)

Racers == {1, 2}

RaceIds == {OldId, NewId}

RacerIdle == [pc |-> "idle", id |-> OldId, m |-> TableMeta(1, 0, 0, 0), e |-> FALSE,
              exist |-> <<>>, wrote |-> FALSE]

\* _create_table lines 793-796: the asserts pass and get_table_meta reads the
\* entry of the identity
race_get(r, id, m, e) ==
    /\ proc[r].pc = "idle"
    /\ proc' = [proc EXCEPT ![r] = [pc |-> "got", id |-> id, m |-> m, e |-> e,
                                    exist |-> IF HasTableMeta(catalog, id)
                                              THEN <<get_table_meta(catalog, id)>> ELSE <<>>,
                                    wrote |-> FALSE]]
    /\ UNCHANGED catalog

\* _create_table lines 796-799: add_table_meta when the read found no entry
RaceAdd(cat, exist, id, m) == IF exist = <<>> THEN add_table_meta(cat, id, m) ELSE cat

\* _create_table lines 796-814: the entry is written, or the call raises
\* already-exists, or it returns a handle of the existing table
race_finish(r) ==
    /\ proc[r].pc = "got"
    /\ LET c == proc[r]
       IN /\ catalog' = RaceAdd(catalog, c.exist, c.id, c.m)
          /\ proc' = [proc EXCEPT ![r].pc = IF c.exist # <<>> /\ c.e THEN "raised" ELSE "returned",
                                  ![r].wrote = c.exist = <<>>]

InitRace ==
    /\ n \in 1..MaxPartitions
    /\ pc = "race"
    /\ proc = [r \in Racers |-> RacerIdle]
    /\ catalog \in {EmptyDb, add_table_meta(EmptyDb, OldId, SrcMeta)}
    /\ disk = <<>>
    /\ cp = <<>>
    /\ fed = <<>>
    /\ job = <<>>
    /\ parts = <<>>
    /\ txn = NoTxn
    /\ call = NoCall
    /\ last = Idle
    /\ written = {}
    /\ MRUnused
    /\ bin = <<>>

RaceFrame == ProcFrame /\ UNCHANGED disk

NextRace ==
    \/ \E r \in Racers, id \in RaceIds, m \in TableMetas, e \in BOOLEAN :
           race_get(r, id, m, e) /\ RaceFrame
    \/ \E r \in Racers : race_finish(r) /\ RaceFrame

SpecRace == InitRace /\ [][NextRace]_vars

-----------------------------------------------------------------------------
(* Claims about concurrent create_table calls (specification SpecRace).    *)

\* the call of process r, with error_if_exist=true, has returned a handle
CreatedStrict(r) == proc[r].pc = "returned" /\ proc[r].e

\* the calls of r and q, both with error_if_exist=true and for one identity,
\* have ended
BothEnded(r, q) ==
    /\ r # q
    /\ proc[r].pc \in {"returned", "raised"} /\ proc[r].e
    /\ proc[q].pc \in {"returned", "raised"} /\ proc[q].e
    /\ proc[r].id = proc[q].id

\* C35: two create_table calls with error_if_exist=true for the same
\* (namespace, name), issued concurrently from two processes, cannot both
\* succeed: at most one of them writes the catalog entry and the other fails
\* with already-exists.
C35_OneCreates ==
    \A r \in Racers, q \in Racers :
        BothEnded(r, q) =>
            /\ ~(CreatedStrict(r) /\ CreatedStrict(q))
            /\ ~(proc[r].wrote /\ proc[q].wrote)

\* A call with error_if_exist=true whose get_table_meta found the entry raises
\* and writes nothing; one that found none writes the entry.
CreateStrictAfterRead ==
    \A r \in Racers :
        (proc[r].pc \in {"returned", "raised"} /\ proc[r].e) =>
            /\ proc[r].pc = "raised" <=> proc[r].exist # <<>>
            /\ proc[r].wrote <=> proc[r].exist = <<>>
=============================================================================
